---- MODULE Spec2Model ----
(***************************************************************************)
(* Model of the memecoin analysis pipeline of insider_crypto_bot:          *)
(*   analysis/analysis_logic.py  MarketAnalyzer                            *)
(*   memecoins/memecoin.py       Memecoin                                  *)
(*   memecoins/memecoin_manager.py MemecoinManager                         *)
(*   error_handling/exceptions.py the error classes and handle_errors      *)
(*                                                                         *)
(* Python values are records [k |-> kind, v |-> number]: k is the Python   *)
(* type ("int", "float", "bool", "str", "none"), v the numeric value (for  *)
(* a string, the identity of its text).  A mapping is a function whose     *)
(* DOMAIN is its set of keys.  Sentiment scores are counted in 1/10000.    *)
(* The two clients are asynchronous (DexAPI / SocialAPI / AsyncMock): a    *)
(* call returns a coroutine, and what it yields is the environment's       *)
(* choice.                                                                 *)
(***************************************************************************)
EXTENDS Integers, Sequences, FiniteSets, TLC

VARIABLES memecoins, tasks, call, started, batches, coin, signal, sentiment, built, analyzer,
          history, indicators, sapi, dex

vars == <<memecoins, tasks, call, started, batches, coin, signal, sentiment, built, analyzer,
          history, indicators, sapi, dex>>

\* The state of the operations that stand apart from the pipeline: the
\* indicator computation and the two clients' own fetches
separate == <<history, indicators, sapi, dex>>

\* The state of the batch monitor, and the state of the operations that are
\* applied to a single record
monitor == <<memecoins, tasks, call, started, batches, analyzer, separate>>

others == <<coin, signal, sentiment, built, analyzer, separate>>

(* ------------------------------ bounds --------------------------------- *)
MaxLen == 3
MaxPosts == 2
MaxScored == 3
MaxBatches == 2
MaxRows == 26

Symbols == {"SOL", "ETH"}

(* ------------------------------ values --------------------------------- *)
Val(k, v) == [k |-> k, v |-> v]

PyNone == Val("none", 0)

\* isinstance(x, (int, float)): bool is a subclass of int
IsNumber(x) == x.k \in {"int", "float", "bool"}

\* isinstance(x, int)
IsInt(x) == x.k \in {"int", "bool"}

\* isinstance(x, str): "numstr" is a string that reads as a number
IsStr(x) == x.k \in {"str", "numstr"}

\* float(x) for a number x
ToFloat(x) == Val("float", x.v)

\* int(x) for a number x (the model's floats are whole)
ToInt(x) == Val("int", x.v)

(* ------------------------------ errors --------------------------------- *)
\* An exception: its class, message tag and the attributes the classes of
\* error_handling/exceptions.py carry ("" / -1 / <<>> stand for None).
Err(type, msg, field, component, metric, input, details) ==
    [type |-> type, msg |-> msg, field |-> field, component |-> component,
     metric |-> metric, input |-> input, details |-> details]

NoErr == Err("none", "", "", "", "", -1, <<>>)

DomainTypes == {"InsiderCryptoError", "APIConnectionError", "DataValidationError",
                "TradingStrategyError", "ConfigurationError", "ProcessingError",
                "AnalysisError"}

\* isinstance(e, InsiderCryptoError)
IsDomainError(e) == e.type \in DomainTypes

PlainError(type, msg) == Err(type, msg, "", "", "", -1, <<>>)

DataValidationError(msg, field) == Err("DataValidationError", msg, field, "", "", -1, <<>>)

APIConnectionError(msg) == Err("APIConnectionError", msg, "", "", "", -1, <<>>)

ProcessingError(msg, component, input, details) ==
    Err("ProcessingError", msg, "", component, "", input, details)

AnalysisError(msg, metric, details) == Err("AnalysisError", msg, "", "", metric, -1, details)

\* InsiderCryptoError("Erro nao tratado detectado", cause=e)
InsiderCryptoError(msg) == Err("InsiderCryptoError", msg, "", "", "", -1, <<>>)

\* The message handed to Exception.__init__ by the subclass constructors
ErrMessage(e) ==
    CASE e.type = "DataValidationError" /\ e.field # "" ->
             <<e.msg, "(Campo:", e.field, ")">>
      [] e.type = "ProcessingError" /\ e.component # "" ->
             <<e.msg, "(Componente:", e.component, "Dados:", ToString(e.input), ")">>
      [] e.type = "AnalysisError" /\ e.metric # "" ->
             <<e.msg, "(Metrica:", e.metric, ")">>
      [] OTHER -> <<e.msg>>

\* str(e): a text is a sequence of pieces
Str(e) ==
    IF IsDomainError(e)
    THEN <<"[", e.type, "]">> \o ErrMessage(e)
         \o (IF e.details # <<>> THEN <<"| Detalhes:">> \o e.details ELSE <<>>)
    ELSE <<e.msg>>

\* What reaches the caller of a function decorated with handle_errors when
\* its body raises e (NoErr: nothing, the call returns).  The wrapper is a
\* plain function: around a coroutine function its try block only creates the
\* coroutine object, so the error raised when that coroutine is awaited
\* passes it by.
handle_errors(re_raise, is_coroutine, e) ==
    IF is_coroutine \/ e = NoErr THEN e
    ELSE IF IsDomainError(e)
         THEN (IF re_raise THEN e ELSE NoErr)
         ELSE (IF re_raise THEN InsiderCryptoError("Erro nao tratado detectado") ELSE NoErr)

(* --------------------------- client payloads --------------------------- *)
\* required_fields of _validate_market_data, in dict order
MarketFields == <<"name", "price", "volume", "liquidity", "holders">>

MarketFieldSet == {MarketFields[i] : i \in 1..Len(MarketFields)}

\* A market payload: shape "dict" with the mapping d, or shape "none"
MarketDict(d) == [shape |-> "dict", d |-> d]

MarketNone == [shape |-> "none", d |-> <<>>]

\* A social payload: shape "dict" with its keys, shape "list" with its posts
\* (each post a mapping, given by its keys and its position), or another shape
SocialDict(keys) == [shape |-> "dict", keys |-> keys, posts |-> <<>>]

SocialList(posts) == [shape |-> "list", keys |-> {}, posts |-> posts]

SocialOther(shape) == [shape |-> shape, keys |-> {}, posts |-> <<>>]

Post(keys, id) == [keys |-> keys, id |-> id]

(* ----------------------- MarketAnalyzer validation --------------------- *)
\* The required_fields table with holders: (int, float)
ExpectedTypeLoose(field, x) ==
    CASE field = "name" -> IsStr(x)
      [] OTHER -> IsNumber(x)

\* isinstance(data[field], expected_type) for the required_fields table
ExpectedType(field, x) ==
    CASE field = "name" -> IsStr(x)
      [] field = "holders" -> IsInt(x)
      [] OTHER -> IsNumber(x)

\* The check of one field by _validate_market_data: NoErr when it passes
CheckMarketField(d, field) ==
    IF field \notin DOMAIN d
    THEN DataValidationError("Campo obrigatorio ausente", "market_data." \o field)
    ELSE IF ~ExpectedType(field, d[field])
         THEN DataValidationError("Tipo invalido", "market_data." \o field)
         ELSE NoErr

\* MarketAnalyzer._validate_market_data: the error it raises, NoErr when it
\* returns.  `field not in data` on None is a TypeError.
_validate_market_data(data) ==
    IF data.shape # "dict"
    THEN PlainError("TypeError", "argument of type NoneType is not iterable")
    ELSE LET bad == {i \in 1..Len(MarketFields) :
                        CheckMarketField(data.d, MarketFields[i]) # NoErr}
         IN IF bad = {} THEN NoErr
            ELSE LET first == CHOOSE i \in bad : \A j \in bad : i <= j
                 IN CheckMarketField(data.d, MarketFields[first])

\* _validate_social_data without its check for an empty list
ValidateSocialNoEmptyCheck(data) ==
    CASE data.shape = "dict" ->
             IF "mentions" \in data.keys /\ "sentiment" \in data.keys
             THEN NoErr
             ELSE DataValidationError("Dados sociais incompletos", "social_data")
      [] data.shape = "list" ->
             LET bad == {i \in 1..Len(data.posts) : "text" \notin data.posts[i].keys}
             IN IF bad = {} THEN NoErr
                ELSE LET first == CHOOSE i \in bad : \A j \in bad : i <= j
                     IN DataValidationError("Post sem texto",
                            "social_data[" \o ToString(first - 1) \o "].text")
      [] OTHER ->
             DataValidationError("Dados sociais devem ser dicionario ou lista", "social_data")

\* MarketAnalyzer._validate_social_data: the error it raises, NoErr when it
\* returns
_validate_social_data(data) ==
    CASE data.shape = "dict" ->
             IF "mentions" \in data.keys /\ "sentiment" \in data.keys
             THEN NoErr
             ELSE DataValidationError("Dados sociais incompletos", "social_data")
      [] data.shape = "list" ->
             IF data.posts = <<>>
             THEN DataValidationError("Lista de dados sociais vazia", "social_data")
             ELSE LET bad == {i \in 1..Len(data.posts) : "text" \notin data.posts[i].keys}
                  IN IF bad = {} THEN NoErr
                     ELSE LET first == CHOOSE i \in bad : \A j \in bad : i <= j
                          IN DataValidationError("Post sem texto",
                                 "social_data[" \o ToString(first - 1) \o "].text")
      [] OTHER ->
             DataValidationError("Dados sociais devem ser dicionario ou lista", "social_data")

\* The checks at the head of _create_memecoin_instance (lines 252-268)
CreateChecks(market_data, social_data) ==
    LET bad == {i \in 1..Len(MarketFields) : MarketFields[i] \notin DOMAIN market_data.d}
    IN IF bad # {}
       THEN LET first == CHOOSE i \in bad : \A j \in bad : i <= j
            IN DataValidationError("Dados de mercado invalidos",
                                   "market_data." \o MarketFields[first])
       ELSE IF social_data.shape # "list"
            THEN DataValidationError("Dados sociais invalidos", "social_data")
            ELSE NoErr

\* What process_memecoin raises between the return of its two fetches and
\* the call of _calculate_sentiment_score: NoErr when it gets that far
PipelineChecks(market_data, social_data) ==
    IF _validate_market_data(market_data) # NoErr
    THEN _validate_market_data(market_data)
    ELSE IF _validate_social_data(social_data) # NoErr
         THEN _validate_social_data(social_data)
         ELSE CreateChecks(market_data, social_data)

(* ------------------------------ Memecoin ------------------------------- *)
Memecoin(symbol, name, price, volume_24h, liquidity, holders, social_mentions, sentiment_score) ==
    [symbol |-> symbol, name |-> name, price |-> price, volume_24h |-> volume_24h,
     liquidity |-> liquidity, holders |-> holders,
     social_mentions |-> social_mentions, sentiment_score |-> sentiment_score]

\* __post_init__ without its checks of the two counts
PostInitNoCounts(m) ==
    CASE ~IsNumber(m.price) -> AnalysisError("Tipo de dado invalido", "price", <<"price">>)
      [] ~IsNumber(m.volume_24h) ->
             AnalysisError("Tipo de dado invalido", "volume_24h", <<"volume_24h">>)
      [] ~IsNumber(m.liquidity) ->
             AnalysisError("Tipo de dado invalido", "liquidity", <<"liquidity">>)
      [] m.sentiment_score.k # "none" /\ ~IsNumber(m.sentiment_score) ->
             AnalysisError("Tipo de dado invalido", "sentiment_score", <<"sentiment_score">>)
      [] OTHER -> NoErr

\* Memecoin.__post_init__: the error it raises, NoErr when the record is built
__post_init__(m) ==
    CASE ~IsNumber(m.price) -> AnalysisError("Tipo de dado invalido", "price", <<"price">>)
      [] ~IsNumber(m.volume_24h) ->
             AnalysisError("Tipo de dado invalido", "volume_24h", <<"volume_24h">>)
      [] ~IsNumber(m.liquidity) ->
             AnalysisError("Tipo de dado invalido", "liquidity", <<"liquidity">>)
      [] ~IsInt(m.holders) -> AnalysisError("Tipo de dado invalido", "holders", <<"holders">>)
      [] ~IsInt(m.social_mentions) ->
             AnalysisError("Tipo de dado invalido", "social_mentions", <<"social_mentions">>)
      [] m.sentiment_score.k # "none" /\ ~IsNumber(m.sentiment_score) ->
             AnalysisError("Tipo de dado invalido", "sentiment_score", <<"sentiment_score">>)
      [] OTHER -> NoErr

(* ----------------------- sentiment aggregation ------------------------- *)
\* round(total / n, 4) on values counted in 1/10000: the nearest whole
\* number, a tie going to the even one
Round4(total, n) ==
    LET q == total \div n
        r == total % n
    IN IF 2 * r < n THEN q
       ELSE IF 2 * r > n THEN q + 1
       ELSE IF q % 2 = 0 THEN q ELSE q + 1

RECURSIVE Sum(_)
Sum(scores) == IF scores = <<>> THEN 0 ELSE Head(scores).v + Sum(Tail(scores))

\* The score as the sum of the compound scores, not their mean
AverageAsSum(scores) ==
    IF scores = <<>>
    THEN [err |-> NoErr, value |-> Val("float", 0)]
    ELSE IF \E i \in 1..Len(scores) : ~IsNumber(scores[i])
         THEN [err |-> PlainError("TypeError", "unsupported operand type(s) for +"),
               value |-> PyNone]
         ELSE [err |-> NoErr, value |-> Val("float", Sum(scores))]

\* The average without the case of no score: a division by zero
AverageNoEmptyCase(scores) ==
    IF scores = <<>>
    THEN [err |-> PlainError("ZeroDivisionError", "division by zero"), value |-> PyNone]
    ELSE IF \E i \in 1..Len(scores) : ~IsNumber(scores[i])
         THEN [err |-> PlainError("TypeError", "unsupported operand type(s) for +"),
               value |-> PyNone]
         ELSE [err |-> NoErr, value |-> Val("float", Round4(Sum(scores), Len(scores)))]

\* The tail of _calculate_sentiment_score (lines 329-335) on the collected
\* scores: [err, value].  sum() over a score that is no number is a TypeError.
AverageScore(scores) ==
    IF scores = <<>>
    THEN [err |-> NoErr, value |-> Val("float", 0)]
    ELSE IF \E i \in 1..Len(scores) : ~IsNumber(scores[i])
         THEN [err |-> PlainError("TypeError", "unsupported operand type(s) for +"),
               value |-> PyNone]
         ELSE [err |-> NoErr, value |-> Val("float", Round4(Sum(scores), Len(scores)))]

\* What the scorer (social_api.analyze_sentiment) does for one post: returns
\* a result holding a compound score, returns a result without one, or raises
ScorerReturn(compound) == [kind |-> "return", compound |-> compound, err |-> NoErr]

ScorerNoKey == [kind |-> "nokey", compound |-> PyNone, err |-> NoErr]

ScorerRaise(e) == [kind |-> "raise", compound |-> PyNone, err |-> e]

\* No scorer call has ended yet
NotScored == [kind |-> "none", compound |-> PyNone, err |-> NoErr]

\* One turn of the loop of _calculate_sentiment_score on a post with text
\* (lines 315-327): [err, scores].  A KeyError, from the result or from the
\* scorer, is logged and the post skipped; any other error is wrapped.
ScorePost(scores, post, outcome) ==
    CASE outcome.kind = "return" ->
             [err |-> NoErr, scores |-> Append(scores, outcome.compound)]
      [] outcome.kind = "nokey" -> [err |-> NoErr, scores |-> scores]
      [] outcome.kind = "raise" /\ outcome.err.type = "KeyError" ->
             [err |-> NoErr, scores |-> scores]
      [] OTHER ->
             [err |-> ProcessingError("Falha na analise de sentimento", "nlp_processor",
                                      post.id, Str(outcome.err)),
              scores |-> scores]

\* The first post at or after position i that has a text, Len + 1 if none:
\* posts without "text" are skipped (lines 309-311)
NextTexted(posts, i) ==
    LET later == {j \in i..Len(posts) : "text" \in posts[j].keys}
    IN IF later = {} THEN Len(posts) + 1 ELSE CHOOSE j \in later : \A k \in later : j <= k

(* --------------------------- inputs of the model ----------------------- *)
\* Market payloads the market client may return: the payload of the test
\* fixture, one made of integers, each of them with one field dropped or of
\* another kind, two with two defects, and None
MarketOK1 ==
    [name |-> Val("str", 1), price |-> Val("float", 150), volume |-> Val("float", 2000000),
     liquidity |-> Val("float", 1000000), holders |-> Val("int", 10000)]

MarketOK2 ==
    [name |-> Val("str", 2), price |-> Val("int", 1), volume |-> Val("int", 400000),
     liquidity |-> Val("int", 0), holders |-> Val("bool", 1)]

Drop(d, field) == [f \in (DOMAIN d) \ {field} |-> d[f]]

MarketPayloads ==
    {MarketDict(MarketOK1), MarketDict(MarketOK2), MarketNone}
    \cup {MarketDict(Drop(MarketOK1, f)) : f \in MarketFieldSet}
    \cup {MarketDict([MarketOK1 EXCEPT ![f] = x]) :
             f \in MarketFieldSet,
             x \in {Val("str", 3), Val("float", 10000), PyNone, Val("int", 7)}}
    \cup {MarketDict(Drop([MarketOK1 EXCEPT !["price"] = PyNone], "holders")),
          MarketDict(Drop([MarketOK1 EXCEPT !["holders"] = PyNone], "name"))}

\* The payloads used when a call runs several coroutines at once
FewMarketPayloads ==
    {MarketDict(MarketOK1), MarketDict(MarketOK2), MarketDict(Drop(MarketOK1, "price"))}

\* Errors a fetch may raise: a failed connection, a rejected response, or
\* any other exception
FetchErrors ==
    {APIConnectionError("Falha na conexao"),
     DataValidationError("Resposta invalida", "response"),
     PlainError("Exception", "Erro API")}

FewFetchErrors == {PlainError("Exception", "Erro API")}

\* Posts of a social payload: post i has the text i, or no "text" key
PostAt(i, texted) == Post(IF texted THEN {"text"} ELSE {"id"}, i)

PostLists ==
    UNION {{[i \in 1..n |-> PostAt(i, b[i])] : b \in [1..n -> BOOLEAN]} : n \in 0..MaxPosts}

SocialPayloads ==
    {SocialDict(k) : k \in SUBSET {"mentions", "sentiment"}}
    \cup {SocialList(p) : p \in PostLists}
    \cup {SocialOther("str"), SocialOther("none")}

FewSocialPayloads ==
    {SocialDict({"mentions", "sentiment"}), SocialList(<<>>)}
    \cup {SocialList([i \in 1..n |-> PostAt(i, TRUE)]) : n \in 1..MaxPosts}

\* Compound scores the scorer may return, in 1/10000, and one that is no number
Compounds == {Val("float", -10000), Val("float", 2501), Val("float", 8000), Val("str", 3)}

ScorerOutcomes ==
    {ScorerReturn(c) : c \in Compounds}
    \cup {ScorerNoKey, ScorerRaise(PlainError("KeyError", "text")),
          ScorerRaise(PlainError("TypeError", "object dict can't be used in 'await' expression"))}

FewScorerOutcomes ==
    {ScorerReturn(Val("float", 8000)), ScorerReturn(Val("float", -10000)),
     ScorerRaise(PlainError("TypeError", "object dict can't be used in 'await' expression"))}

\* Arguments realtime_monitoring may be called with: a list of symbols, None,
\* a string, a tuple
SymbolSeqs == UNION {[1..n -> Symbols] : n \in 0..MaxLen}

Arg(shape, items) == [shape |-> shape, items |-> items]

Args ==
    {Arg("list", q) : q \in SymbolSeqs}
    \cup {Arg("none", <<>>), Arg("str", <<"SOL">>), Arg("str", <<>>),
          Arg("tuple", <<"SOL", "ETH">>)}

\* A registry handed to the analyzer may already hold records
PriorRecord ==
    Memecoin("SOL", Val("str", 9), Val("float", 1), Val("float", 1), Val("float", 1),
             Val("int", 1), Val("int", 1), PyNone)

InitialRegistries == {<<>>, <<PriorRecord>>}

(* ------------------------------ the state ------------------------------ *)
\* memecoins: MemecoinManager.memecoins, the registry
\* tasks:     the process_memecoin coroutines that exist, by <<batch, index>>:
\*            where each is (pc), its symbol, the payloads fetched, the post
\*            being scored (idx), the scores collected, what the last scorer
\*            call did (last), the error _calculate_sentiment_score raised
\*            (calc) and the error the coroutine ended with (err)
\* call:      the realtime_monitoring call of the caller: where it is, its
\*            argument, the registry when it was made, the first error its
\*            gather received, what it gave back to the caller
\* started:   per symbol, how often the current call started process_memecoin
\*            and called each fetch
\* batches:   the number of realtime_monitoring calls made so far
\* coin:      the record handed to detect_opportunities
\* signal:    what detect_opportunities gave back
\* analyzer:  the MarketAnalyzer(...) call that made the analyzer: where it
\*            is, the kinds of the two clients, whether a registry was
\*            passed, the error it raised
\* history:   the price table handed to apply_technical_analysis
\* indicators: what apply_technical_analysis gave back
\* sapi:      a SocialAPI and its fetch_twitter_mentions call
\* dex:       a DexAPI: its cache, the memo of get_cached_data, its last call
\* built:     the Memecoin(...) call that made the record: where it is, its
\*            arguments, the error it raised
\* sentiment: a call of _calculate_sentiment_score made on its own: where it
\*            is, the posts it was given, the post being scored, the scores
\*            collected, the scorer calls made (post and what the scorer did),
\*            and what the call gave back
PendingMarket == [shape |-> "pending", d |-> <<>>]

PendingSocial == SocialOther("pending")

NewTask(symbol) ==
    [pc |-> "created", symbol |-> symbol, market |-> PendingMarket,
     social |-> PendingSocial, idx |-> 0, scores |-> <<>>, last |-> NotScored,
     calc |-> NoErr, err |-> NoErr]

NoCalls == [pipeline |-> 0, market |-> 0, social |-> 0, scorer |-> 0]

NoArg == Arg("none", <<>>)

NoSignal == [pc |-> "none", err |-> NoErr, value |-> "None"]

NoAnalyzer == [pc |-> "none", dex_api |-> "none", social_api |-> "none", given |-> FALSE,
               err |-> NoErr]

\* An analyzer made of two mocked clients, with a registry passed or not
BuiltAnalyzer(given) ==
    [pc |-> "built", dex_api |-> "AsyncMock", social_api |-> "AsyncMock", given |-> given,
     err |-> NoErr]

\* A price table: its number of rows, its columns, its "close" column
Table(rows, columns, close) == [rows |-> rows, columns |-> columns, close |-> close]

NoHistory == Table(0, {}, <<>>)

NoIndicators == [pc |-> "none", err |-> NoErr, value |-> <<>>]

NoSocialCall == [pc |-> "none", status |-> 0, payload |-> SocialOther("pending"),
                 err |-> NoErr, value |-> SocialOther("pending")]

NoDex ==
    [cache |-> <<>>, memo |-> <<>>, pc |-> "none", symbol |-> "", status |-> 0,
     payload |-> MarketNone, err |-> NoErr, value |-> MarketNone]

InitSeparate ==
    /\ history = NoHistory
    /\ indicators = NoIndicators
    /\ sapi = NoSocialCall
    /\ dex = NoDex

NoBuilt == [pc |-> "none", args |-> <<>>, err |-> NoErr]

NewSentiment(posts) ==
    [pc |-> "created", posts |-> posts, idx |-> 0, scores |-> <<>>, passed |-> <<>>,
     err |-> NoErr, value |-> PyNone]

NoSentiment == [NewSentiment(<<>>) EXCEPT !.pc = "none"]

Init ==
    /\ memecoins \in InitialRegistries
    /\ tasks = <<>>
    /\ call = [pc |-> "idle", arg |-> NoArg, base |-> memecoins, err |-> NoErr,
               result |-> NoErr]
    /\ started = [s \in Symbols |-> NoCalls]
    /\ batches = 0
    /\ coin = PriorRecord
    /\ signal = NoSignal
    /\ sentiment = NoSentiment
    /\ built = NoBuilt
    /\ analyzer = BuiltAnalyzer(memecoins # <<>>)
    /\ InitSeparate

RECURSIVE SetToSeq(_)
SetToSeq(S) ==
    IF S = {} THEN <<>>
    ELSE LET x == CHOOSE y \in S : TRUE IN <<x>> \o SetToSeq(S \ {x})

\* The symbols realtime_monitoring makes one coroutine for, as it would
\* without removing the duplicates
SymbolsWithDuplicates(symbols) == symbols

\* [... for symbol in set(symbols)] (line 104): the distinct symbols, in the
\* order the set yields them
TaskSymbols(symbols) == SetToSeq({symbols[i] : i \in 1..Len(symbols)})

\* The check of the argument without its isinstance half
InvalidSymbolsEmptyOnly(arg) == arg.shape = "none" \/ arg.items = <<>>

\* `not symbols or not isinstance(symbols, list)` (line 96)
InvalidSymbols(arg) == arg.shape = "none" \/ arg.items = <<>> \/ arg.shape # "list"

Running(t) == t.pc \in {"created", "fetching", "scoring"}

Current == {id \in DOMAIN tasks : id[1] = batches}

\* realtime_monitoring is called.  An invalid argument raises at once (the
\* decorator of a coroutine function passes the error on); otherwise one
\* process_memecoin coroutine per distinct symbol goes to asyncio.gather.
\* Coroutines of earlier calls that have finished are forgotten.
CallBody(arg) ==
    /\ analyzer.pc = "built"
    /\ batches' = batches + 1
    /\ started' = [s \in Symbols |-> NoCalls]
    /\ UNCHANGED <<memecoins, others>>
    /\ LET kept == {id \in DOMAIN tasks : Running(tasks[id])}
           syms == IF InvalidSymbols(arg) THEN <<>> ELSE TaskSymbols(arg.items)
           new == {<<batches + 1, i>> : i \in 1..Len(syms)}
       IN /\ tasks' = [id \in kept \cup new |->
                          IF id \in new THEN NewTask(syms[id[2]]) ELSE tasks[id]]
          /\ call' = IF InvalidSymbols(arg)
                     THEN [pc |-> "returned", arg |-> arg, base |-> memecoins,
                           err |-> NoErr,
                           result |-> handle_errors(FALSE, TRUE,
                               DataValidationError("Lista de simbolos invalida", "symbols"))]
                     ELSE [pc |-> "waiting", arg |-> arg, base |-> memecoins,
                           err |-> NoErr, result |-> NoErr]

\* The first call of realtime_monitoring
Call(arg) ==
    /\ call.pc = "idle"
    /\ CallBody(arg)

\* The first step of a process_memecoin coroutine: it calls both fetches and
\* waits for them (lines 131-134)
Start(id) ==
    /\ id \in DOMAIN tasks
    /\ tasks[id].pc = "created"
    /\ tasks' = [tasks EXCEPT ![id].pc = "fetching"]
    /\ started' = [started EXCEPT ![tasks[id].symbol] =
                      [@ EXCEPT !.pipeline = @ + 1, !.market = @ + 1, !.social = @ + 1]]
    /\ UNCHANGED <<memecoins, call, batches, others>>

\* An append that keeps one record per symbol
AddIfNew(list, memecoin) ==
    IF \E i \in 1..Len(list) : list[i].symbol = memecoin.symbol
    THEN list ELSE Append(list, memecoin)

\* An append that puts the record in the place of one of the same symbol
AddReplacing(list, memecoin) ==
    IF \E i \in 1..Len(list) : list[i].symbol = memecoin.symbol
    THEN [i \in 1..Len(list) |->
             IF list[i].symbol = memecoin.symbol THEN memecoin ELSE list[i]]
    ELSE Append(list, memecoin)

\* An append that is refused once a coroutine of the call has failed
AddUnlessBatchFailed(list, memecoin) ==
    IF call.err # NoErr THEN list ELSE Append(list, memecoin)

\* An append to the registry as it was when the call began: a pipeline that
\* reads the list, is suspended, and writes it back
AddToSnapshot(list, memecoin) == Append(call.base, memecoin)

\* MemecoinManager.add_memecoin
add_memecoin(list, memecoin) == Append(list, memecoin)

\* What _calculate_sentiment_score gives its caller once its loop has ended
\* with the error calc_err (NoErr: the loop ran to its end) and the scores
\* collected: [err, value].  It is a coroutine function under
\* handle_errors(re_raise=True).
CalculateResult(calc_err, scores) ==
    IF calc_err # NoErr
    THEN [err |-> handle_errors(TRUE, TRUE, calc_err), value |-> PyNone]
    ELSE [err |-> handle_errors(TRUE, TRUE, AverageScore(scores).err),
          value |-> AverageScore(scores).value]

\* The sentiment score without the default: what the calculation returned
SentimentNoDefault(calc) == calc.value

\* The sentiment score _create_memecoin_instance uses (lines 270-275): any
\* error of the calculation is logged and replaced by 0.0
SentimentOrDefault(calc) == IF calc.err # NoErr THEN Val("float", 0) ELSE calc.value

\* The Memecoin(...) call with volume and liquidity taken from each other's
\* field
BuildSwapped(symbol, market_data, social_data, sentiment_score) ==
    Memecoin(symbol, market_data.d["name"], ToFloat(market_data.d["price"]),
             ToFloat(market_data.d["liquidity"]), ToFloat(market_data.d["volume"]),
             ToInt(market_data.d["holders"]), Val("int", Len(social_data.posts)),
             sentiment_score)

\* The Memecoin(...) call of _create_memecoin_instance (lines 277-287)
BuildMemecoin(symbol, market_data, social_data, sentiment_score) ==
    Memecoin(symbol, market_data.d["name"], ToFloat(market_data.d["price"]),
             ToFloat(market_data.d["volume"]), ToFloat(market_data.d["liquidity"]),
             ToInt(market_data.d["holders"]), Val("int", Len(social_data.posts)),
             sentiment_score)

\* A process_memecoin coroutine ends, its body having raised e (NoErr: it
\* returned).  It is a coroutine function under handle_errors(re_raise=False).
\* The first error among the coroutines of the current gather is the one the
\* gather gives to realtime_monitoring.
Finished(id, t, e) ==
    LET out == handle_errors(FALSE, TRUE, e)
    IN /\ tasks' = [tasks EXCEPT ![id] =
                       [t EXCEPT !.pc = IF e = NoErr \/ out = NoErr THEN "done" ELSE "failed",
                                 !.err = out]]
       /\ call' = IF out # NoErr /\ id[1] = batches /\ call.pc = "waiting"
                     /\ call.err = NoErr
                  THEN [call EXCEPT !.err = out]
                  ELSE call

\* _calculate_sentiment_score has ended for the coroutine: the record is
\* built and appended (lines 270-287, 144-145)
Complete(id, t, calc_err, scores) ==
    LET calc == CalculateResult(calc_err, scores)
        m == BuildMemecoin(t.symbol, t.market, t.social, SentimentOrDefault(calc))
        t2 == [t EXCEPT !.calc = calc.err, !.scores = <<>>]
    IN IF __post_init__(m) # NoErr
       THEN /\ Finished(id, t2, __post_init__(m))
            /\ UNCHANGED memecoins
       ELSE /\ memecoins' = add_memecoin(memecoins, m)
            /\ Finished(id, t2, NoErr)

\* Both fetches have returned: process_memecoin validates the payloads and
\* awaits the first scorer call (lines 140-144, 252-272, 303-316)
AfterFetch(id, t) ==
    LET chk == PipelineChecks(t.market, t.social)
        first == NextTexted(t.social.posts, 1)
    IN IF chk # NoErr
       THEN /\ Finished(id, t, chk)
            /\ UNCHANGED memecoins
       ELSE IF first > Len(t.social.posts)
            THEN Complete(id, t, NoErr, <<>>)
            ELSE /\ tasks' = [tasks EXCEPT ![id] = [t EXCEPT !.pc = "scoring", !.idx = first]]
                 /\ UNCHANGED <<memecoins, call>>

\* dex_api.fetch_market_data(symbol) returns a payload
MarketReturn(id, payload) ==
    /\ id \in DOMAIN tasks
    /\ tasks[id].pc = "fetching"
    /\ tasks[id].market = PendingMarket
    /\ IF tasks[id].social = PendingSocial
       THEN /\ tasks' = [tasks EXCEPT ![id].market = payload]
            /\ UNCHANGED <<memecoins, call>>
       ELSE AfterFetch(id, [tasks[id] EXCEPT !.market = payload])
    /\ UNCHANGED <<started, batches, others>>

\* social_api.fetch_twitter_mentions(symbol) returns a payload
SocialReturn(id, payload) ==
    /\ id \in DOMAIN tasks
    /\ tasks[id].pc = "fetching"
    /\ tasks[id].social = PendingSocial
    /\ IF tasks[id].market = PendingMarket
       THEN /\ tasks' = [tasks EXCEPT ![id].social = payload]
            /\ UNCHANGED <<memecoins, call>>
       ELSE AfterFetch(id, [tasks[id] EXCEPT !.social = payload])
    /\ UNCHANGED <<started, batches, others>>

\* A fetch raises: the inner gather gives the error to process_memecoin at
\* once (lines 131-134)
MarketRaise(id, e) ==
    /\ id \in DOMAIN tasks
    /\ tasks[id].pc = "fetching"
    /\ tasks[id].market = PendingMarket
    /\ Finished(id, tasks[id], e)
    /\ UNCHANGED <<memecoins, started, batches, others>>

SocialRaise(id, e) ==
    /\ id \in DOMAIN tasks
    /\ tasks[id].pc = "fetching"
    /\ tasks[id].social = PendingSocial
    /\ Finished(id, tasks[id], e)
    /\ UNCHANGED <<memecoins, started, batches, others>>

\* The scorer call for the post at idx ends (lines 315-327); after the last
\* post the record is built and appended
Score(id, outcome) ==
    /\ id \in DOMAIN tasks
    /\ tasks[id].pc = "scoring"
    /\ LET t == [tasks[id] EXCEPT !.last = outcome]
           r == ScorePost(t.scores, t.social.posts[t.idx], outcome)
           next == NextTexted(t.social.posts, t.idx + 1)
       IN IF r.err # NoErr
          THEN Complete(id, t, r.err, r.scores)
          ELSE IF next > Len(t.social.posts)
               THEN Complete(id, t, NoErr, r.scores)
               ELSE /\ tasks' = [tasks EXCEPT ![id] =
                                    [t EXCEPT !.idx = next, !.scores = r.scores]]
                    /\ UNCHANGED <<memecoins, call>>
    /\ started' = [started EXCEPT ![tasks[id].symbol].scorer = @ + 1]
    /\ UNCHANGED <<batches, others>>

\* The wrapping error with the cause's bare message for details
GatherErrorBareMessage(e) ==
    ProcessingError("Falha na coleta de dados de mercado ou sociais",
                    "realtime_monitoring", -1, <<e.msg>>)

\* The ProcessingError realtime_monitoring raises around its gather
\* (lines 109-114)
GatherError(e) ==
    ProcessingError("Falha na coleta de dados de mercado ou sociais",
                    "realtime_monitoring", -1, Str(e))

\* asyncio.gather ends without error once every coroutine has returned:
\* realtime_monitoring returns None
GatherReturn ==
    /\ call.pc = "waiting"
    /\ \A id \in Current : tasks[id].pc = "done"
    /\ call' = [call EXCEPT !.pc = "returned", !.result = NoErr]
    /\ UNCHANGED <<memecoins, tasks, started, batches, others>>

\* asyncio.gather gives its first error to realtime_monitoring, which wraps
\* it; the other coroutines go on.  Every coroutine has taken its first step
\* by then: the event loop runs the steps in the order they were scheduled.
GatherRaise ==
    /\ call.pc = "waiting"
    /\ call.err # NoErr
    /\ \A id \in Current : tasks[id].pc # "created"
    /\ call' = [call EXCEPT !.pc = "returned",
                            !.result = handle_errors(FALSE, TRUE, GatherError(call.err))]
    /\ UNCHANGED <<memecoins, tasks, started, batches, others>>

\* The clients' answers are drawn from the full sets while a single
\* coroutine runs, and from the short ones while several do
Alone == Cardinality(DOMAIN tasks) = 1

Next ==
    \/ \E arg \in Args : Call(arg)
    \/ \E id \in DOMAIN tasks : Start(id)
    \/ \E id \in DOMAIN tasks :
          \E payload \in (IF Alone THEN MarketPayloads ELSE FewMarketPayloads) :
             MarketReturn(id, payload)
    \/ \E id \in DOMAIN tasks :
          \E payload \in (IF Alone THEN SocialPayloads ELSE FewSocialPayloads) :
             SocialReturn(id, payload)
    \/ \E id \in DOMAIN tasks :
          \E e \in (IF Alone THEN FetchErrors ELSE FewFetchErrors) : MarketRaise(id, e)
    \/ \E id \in DOMAIN tasks :
          \E e \in (IF Alone THEN FetchErrors ELSE FewFetchErrors) : SocialRaise(id, e)
    \/ \E id \in DOMAIN tasks :
          \E outcome \in (IF Alone THEN ScorerOutcomes ELSE FewScorerOutcomes) :
             Score(id, outcome)
    \/ GatherReturn
    \/ GatherRaise

Spec == Init /\ [][Next]_vars

(* ------------------------- opportunity detection ----------------------- *)
\* The thresholds of the decision (lines 453 and 455): sentiment in 1/10000
BuySentiment == 7000

BuyVolume == 1000000

SellSentiment == 3000

SellVolume == 500000

\* hasattr(memecoin, a) is false or the attribute is None (line 418); a
\* deleted attribute is the value of kind "absent"
Missing(x) == x.k \in {"none", "absent"}

\* float(x): the error it raises, NoErr when it converts
FloatError(x) ==
    CASE IsNumber(x) \/ x.k = "numstr" -> NoErr
      [] x.k = "str" -> PlainError("ValueError", "could not convert string to float")
      [] OTHER -> PlainError("TypeError", "float() argument must be a string or a number")

\* The decision of detect_opportunities (lines 453-458), with >= for >
DecideInclusive(score, volume) ==
    IF score >= BuySentiment /\ volume >= BuyVolume THEN "buy"
    ELSE IF score < SellSentiment /\ volume < SellVolume THEN "sell"
    ELSE "None"

\* The decision of detect_opportunities (lines 453-458)
Decide(score, volume) ==
    IF score > BuySentiment /\ volume > BuyVolume THEN "buy"
    ELSE IF score < SellSentiment /\ volume < SellVolume THEN "sell"
    ELSE "None"

\* The body of detect_opportunities, were "price" not among its required
\* attributes
DetectBodyNoPrice(memecoin) ==
    LET missing == {a \in {"sentiment_score", "volume_24h"} : Missing(memecoin[a])}
        bad == {a \in {"sentiment_score", "volume_24h", "price"} :
                   FloatError(memecoin[a]) # NoErr}
    IN IF missing # {}
       THEN [err |-> DataValidationError("Atributos obrigatorios ausentes ou nulos",
                                          "memecoin"),
             value |-> "None"]
       ELSE IF bad # {}
            THEN [err |-> AnalysisError("Tipo de dado invalido para analise",
                                        "sentiment_and_volume", <<"input_types">>),
                  value |-> "None"]
            ELSE [err |-> NoErr,
                  value |-> Decide(memecoin.sentiment_score.v, memecoin.volume_24h.v)]

\* The body of detect_opportunities, were it to buy only above a price
DetectBodyPriced(memecoin) ==
    IF DetectBodyNoPrice(memecoin).value = "buy" /\ memecoin.price.v < 50
    THEN [err |-> NoErr, value |-> "None"]
    ELSE DetectBodyNoPrice(memecoin)

\* The body of detect_opportunities: [err, value]
DetectBody(memecoin) ==
    LET missing == {a \in {"sentiment_score", "volume_24h", "price"} :
                       Missing(memecoin[a])}
        bad == {a \in {"sentiment_score", "volume_24h", "price"} :
                   FloatError(memecoin[a]) # NoErr}
    IN IF missing # {}
       THEN [err |-> DataValidationError("Atributos obrigatorios ausentes ou nulos",
                                          "memecoin"),
             value |-> "None"]
       ELSE IF bad # {}
            THEN [err |-> AnalysisError("Tipo de dado invalido para analise",
                                        "sentiment_and_volume", <<"input_types">>),
                  value |-> "None"]
            ELSE [err |-> NoErr,
                  value |-> Decide(memecoin.sentiment_score.v, memecoin.volume_24h.v)]

\* detect_opportunities, a plain function under handle_errors(re_raise=True)
detect_opportunities(memecoin) ==
    [err |-> handle_errors(TRUE, FALSE, DetectBody(memecoin).err),
     value |-> DetectBody(memecoin).value]

\* Records detect_opportunities is tried on: sentiment and volume around the
\* thresholds, as floats and as whole numbers, and values of other kinds
DetectScores ==
    {Val("float", v) : v \in {-10000, 0, 2500, 2999, 3000, 3001, 4000, 5000, 6999, 7000,
                             7001, 7500, 8000, 10000}}
    \cup {Val("int", 0), Val("int", 10000), PyNone}

DetectVolumes ==
    {Val("float", v) : v \in {0, 400000, 499999, 500000, 500001, 750000, 900000,
                             1000000, 1000001, 1100000, 1500000}}
    \cup {Val("int", 500000), Val("int", 1000000), Val("int", 2000000)}

DetectPrices == {Val("float", 100), Val("int", 1)}

DetectCoins ==
    {Memecoin("TEST", Val("str", 1), p, v, Val("float", 1000000), Val("int", 1000),
              Val("int", 50), sc) :
        p \in DetectPrices, v \in DetectVolumes, sc \in DetectScores}

InitDetect ==
    /\ memecoins = <<>>
    /\ tasks = <<>>
    /\ call = [pc |-> "idle", arg |-> NoArg, base |-> <<>>, err |-> NoErr,
               result |-> NoErr]
    /\ started = [s \in Symbols |-> NoCalls]
    /\ batches = 0
    /\ coin \in DetectCoins
    /\ signal = NoSignal
    /\ sentiment = NoSentiment
    /\ built = NoBuilt
    /\ analyzer = BuiltAnalyzer(FALSE)
    /\ InitSeparate

\* detect_opportunities, were it to store the converted numbers in the record
DetectOpportunitiesStoring ==
    /\ signal.pc = "none"
    /\ signal' = [pc |-> "done", err |-> detect_opportunities(coin).err,
                  value |-> detect_opportunities(coin).value]
    /\ coin' = IF detect_opportunities(coin).err = NoErr
               THEN [coin EXCEPT !.sentiment_score = ToFloat(@), !.volume_24h = ToFloat(@),
                                 !.price = ToFloat(@)]
               ELSE coin
    /\ UNCHANGED <<sentiment, built, monitor>>

\* detect_opportunities(coin) is called
DetectOpportunities ==
    /\ signal.pc = "none"
    /\ signal' = [pc |-> "done", err |-> detect_opportunities(coin).err,
                  value |-> detect_opportunities(coin).value]
    /\ UNCHANGED <<coin, sentiment, built, monitor>>

NextDetect == DetectOpportunities

SpecDetect == InitDetect /\ [][NextDetect]_vars

(* ------------------ the analyzer made, then called twice ---------------- *)
\* What a client argument of MarketAnalyzer(...) may be
ClientKinds == {"DexAPI", "SocialAPI", "Mock", "AsyncMock", "str", "none"}

\* The manager argument: none, or a registry that holds the given records
Manager(given, list) == [given |-> given, list |-> list]

Managers == {Manager(FALSE, <<>>)} \cup {Manager(TRUE, r) : r \in InitialRegistries}

\* The check of the clients with the social client looked at first
ValidateSocialFirst(dex_api, social_api) ==
    IF social_api \notin {"SocialAPI", "Mock", "AsyncMock"}
    THEN DataValidationError("Instancia SocialAPI invalida", "social_api")
    ELSE IF dex_api \notin {"DexAPI", "Mock", "AsyncMock"}
         THEN DataValidationError("Instancia DexAPI invalida", "dex_api")
         ELSE NoErr

\* _validate_dependencies: the error it raises, NoErr when both clients pass
_validate_dependencies(dex_api, social_api) ==
    IF dex_api \notin {"DexAPI", "Mock", "AsyncMock"}
    THEN DataValidationError("Instancia DexAPI invalida", "dex_api")
    ELSE IF social_api \notin {"SocialAPI", "Mock", "AsyncMock"}
         THEN DataValidationError("Instancia SocialAPI invalida", "social_api")
         ELSE NoErr

InitAnalyzer ==
    /\ memecoins = <<>>
    /\ tasks = <<>>
    /\ call = [pc |-> "idle", arg |-> NoArg, base |-> <<>>, err |-> NoErr,
               result |-> NoErr]
    /\ started = [s \in Symbols |-> NoCalls]
    /\ batches = 0
    /\ coin = PriorRecord
    /\ signal = NoSignal
    /\ sentiment = NoSentiment
    /\ built = NoBuilt
    /\ analyzer = NoAnalyzer
    /\ InitSeparate

\* MarketAnalyzer(dex_api, social_api, manager) is called (lines 63-67): the
\* registry is the manager's, or that of a new MemecoinManager; then the
\* clients are checked
NewAnalyzer(dex_api, social_api, manager) ==
    /\ analyzer.pc = "none"
    /\ memecoins' = IF manager.given THEN manager.list ELSE <<>>
    /\ analyzer' =
           [pc |-> IF _validate_dependencies(dex_api, social_api) = NoErr
                   THEN "built" ELSE "rejected",
            dex_api |-> dex_api, social_api |-> social_api, given |-> manager.given,
            err |-> _validate_dependencies(dex_api, social_api)]
    /\ UNCHANGED <<tasks, call, started, batches, coin, signal, sentiment, built, separate>>

NextConstruct ==
    \E d \in ClientKinds, so \in ClientKinds, manager \in Managers : NewAnalyzer(d, so, manager)

SpecConstruct == InitAnalyzer /\ [][NextConstruct]_vars

\* realtime_monitoring is called again once the call before has returned
CallAgain(arg) ==
    /\ call.pc = "returned"
    /\ batches < MaxBatches
    /\ CallBody(arg)

\* The arguments and answers of the runs of two calls
BatchArgs == {Arg("list", <<"SOL">>), Arg("list", <<"ETH", "SOL">>), Arg("list", <<>>)}

BatchMarketPayloads == {MarketDict(MarketOK1), MarketDict(Drop(MarketOK1, "price"))}

BatchSocialPayloads == {SocialList(<<PostAt(1, TRUE)>>)}

BatchScorerOutcomes ==
    {ScorerReturn(Val("float", 8000)),
     ScorerRaise(PlainError("TypeError", "object dict can't be used in 'await' expression"))}

NextBatches ==
    \/ \E manager \in Managers : NewAnalyzer("AsyncMock", "AsyncMock", manager)
    \/ \E arg \in BatchArgs : Call(arg)
    \/ \E arg \in BatchArgs : CallAgain(arg)
    \/ \E id \in DOMAIN tasks : Start(id)
    \/ \E id \in DOMAIN tasks : \E payload \in BatchMarketPayloads : MarketReturn(id, payload)
    \/ \E id \in DOMAIN tasks : \E payload \in BatchSocialPayloads : SocialReturn(id, payload)
    \/ \E id \in DOMAIN tasks : \E e \in FewFetchErrors : MarketRaise(id, e)
    \/ \E id \in DOMAIN tasks : \E e \in FewFetchErrors : SocialRaise(id, e)
    \/ \E id \in DOMAIN tasks : \E outcome \in BatchScorerOutcomes : Score(id, outcome)
    \/ GatherReturn
    \/ GatherRaise

SpecBatches == InitAnalyzer /\ [][NextBatches]_vars

(* --------------------- records made and then examined ------------------ *)
\* Values a Memecoin is constructed with or an attribute is set to: numbers
\* of the three numeric kinds, a string that reads as a number ("100.0"),
\* one that does not, and None
WrongKinds == {Val("numstr", 100), Val("str", 3), PyNone}

PriceValues == {Val("float", 100), Val("int", 1), Val("bool", 1)} \cup WrongKinds

VolumeValues == {Val("float", 400000), Val("float", 2000000), Val("int", 500000)} \cup WrongKinds

LiquidityValues == {Val("float", 1000000), Val("int", 0)} \cup WrongKinds

CountValues == {Val("int", 1000), Val("bool", 1), Val("float", 50)} \cup WrongKinds

\* (the integer 1 is 10000 in 1/10000)
SentimentValues == {Val("float", 7500), Val("float", 2500), Val("int", 10000)} \cup WrongKinds

RecordArgs ==
    {Memecoin("SOL", Val("str", 1), p, v, l, h, sm, sc) :
        p \in PriceValues, v \in VolumeValues, l \in LiquidityValues, h \in CountValues,
        sm \in {Val("int", 50), Val("float", 50), PyNone}, sc \in SentimentValues}

InitRecord ==
    /\ memecoins \in InitialRegistries
    /\ tasks = <<>>
    /\ call = [pc |-> "idle", arg |-> NoArg, base |-> memecoins, err |-> NoErr,
               result |-> NoErr]
    /\ started = [s \in Symbols |-> NoCalls]
    /\ batches = 0
    /\ coin = PriorRecord
    /\ signal = NoSignal
    /\ sentiment = NoSentiment
    /\ built = NoBuilt
    /\ analyzer = BuiltAnalyzer(memecoins # <<>>)
    /\ InitSeparate

\* Memecoin(...) is called: __post_init__ raises, or the record exists
Construct(args) ==
    /\ built.pc = "none"
    /\ IF __post_init__(args) # NoErr
       THEN /\ built' = [pc |-> "rejected", args |-> args, err |-> __post_init__(args)]
            /\ UNCHANGED coin
       ELSE /\ built' = [pc |-> "built", args |-> args, err |-> NoErr]
            /\ coin' = args
    /\ UNCHANGED <<signal, sentiment, monitor>>

\* An attribute of the record is assigned: the dataclass is not frozen and
\* __post_init__ does not run again
SetAttr(a, x) ==
    /\ built.pc = "built"
    /\ signal.pc = "none"
    /\ coin' = [coin EXCEPT ![a] = x]
    /\ built' = [built EXCEPT !.pc = "set"]
    /\ UNCHANGED <<signal, sentiment, monitor>>

\* An attribute of the record is deleted
DelAttr(a) == SetAttr(a, Val("absent", 0))

\* detect_opportunities is called on the record, for the first time
DetectRecord ==
    /\ built.pc \in {"built", "set"}
    /\ DetectOpportunities

\* detect_opportunities is called on the record once more
DetectAgain ==
    /\ signal.pc = "done"
    /\ signal' = [pc |-> "again", err |-> detect_opportunities(coin).err,
                  value |-> detect_opportunities(coin).value]
    /\ UNCHANGED <<coin, sentiment, built, monitor>>

NextRecord ==
    \/ \E args \in RecordArgs : Construct(args)
    \/ \E a \in {"sentiment_score", "volume_24h", "price"} :
          \E x \in SentimentValues \cup VolumeValues : SetAttr(a, x)
    \/ \E a \in {"sentiment_score", "volume_24h", "price"} : DelAttr(a)
    \/ DetectRecord
    \/ DetectAgain

SpecRecord == InitRecord /\ [][NextRecord]_vars

(* ------------------ the sentiment aggregation on its own --------------- *)
\* The lists of posts _calculate_sentiment_score is tried on: up to MaxScored
\* posts, each with a text or without
ScoredLists ==
    UNION {{[i \in 1..n |-> PostAt(i, b[i])] : b \in [1..n -> BOOLEAN]} : n \in 0..MaxScored}

InitSentiment ==
    /\ memecoins = <<>>
    /\ tasks = <<>>
    /\ call = [pc |-> "idle", arg |-> NoArg, base |-> <<>>, err |-> NoErr,
               result |-> NoErr]
    /\ started = [s \in Symbols |-> NoCalls]
    /\ batches = 0
    /\ coin = PriorRecord
    /\ signal = NoSignal
    /\ sentiment \in {NewSentiment(p) : p \in ScoredLists}
    /\ built = NoBuilt
    /\ analyzer = BuiltAnalyzer(FALSE)
    /\ InitSeparate

\* The call has ended: what CalculateResult gives goes to the caller
SentimentEnd(c, calc_err, scores) ==
    sentiment' = [c EXCEPT !.pc = "returned", !.scores = scores,
                           !.err = CalculateResult(calc_err, scores).err,
                           !.value = CalculateResult(calc_err, scores).value]

\* The first step of _calculate_sentiment_score(posts): nothing to score
\* gives 0.0 at once (lines 303-305), otherwise the loop runs up to its first
\* scorer call (lines 307-316)
CalculateBegin ==
    /\ sentiment.pc = "created"
    /\ LET first == NextTexted(sentiment.posts, 1)
       IN IF sentiment.posts = <<>>
          THEN sentiment' = [sentiment EXCEPT !.pc = "returned", !.value = Val("float", 0)]
          ELSE IF first > Len(sentiment.posts)
               THEN SentimentEnd(sentiment, NoErr, <<>>)
               ELSE sentiment' = [sentiment EXCEPT !.pc = "scoring", !.idx = first]
    /\ UNCHANGED <<coin, signal, built, monitor>>

\* The scorer call for the post at idx ends (lines 315-327)
CalculateScore(outcome) ==
    /\ sentiment.pc = "scoring"
    /\ LET post == sentiment.posts[sentiment.idx]
           c == [sentiment EXCEPT
                    !.passed = Append(@, [post |-> sentiment.idx, kind |-> outcome.kind])]
           r == ScorePost(sentiment.scores, post, outcome)
           next == NextTexted(sentiment.posts, sentiment.idx + 1)
       IN IF r.err # NoErr
          THEN SentimentEnd(c, r.err, r.scores)
          ELSE IF next > Len(sentiment.posts)
               THEN SentimentEnd(c, NoErr, r.scores)
               ELSE sentiment' = [c EXCEPT !.idx = next, !.scores = r.scores]
    /\ UNCHANGED <<coin, signal, built, monitor>>

NextSentiment ==
    \/ CalculateBegin
    \/ \E outcome \in ScorerOutcomes : CalculateScore(outcome)

SpecSentiment == InitSentiment /\ [][NextSentiment]_vars

(* ------------------------- technical analysis ------------------------- *)
\* Closing prices are counted in 1/100; NaN is the value of kind "nan"
NaN == Val("nan", 0)

\* Series.isnull
IsNull(x) == x.k \in {"nan", "none"}

\* Series.ffill: a gap takes the last value before it, if there is one
RECURSIVE FfillAt(_, _)
FfillAt(xs, i) ==
    IF ~IsNull(xs[i]) \/ i = 1 THEN xs[i] ELSE FfillAt(xs, i - 1)

Ffill(xs) == [i \in 1..Len(xs) |-> FfillAt(xs, i)]

\* Series.bfill: a gap takes the first value after it, if there is one
RECURSIVE BfillAt(_, _)
BfillAt(xs, i) ==
    IF ~IsNull(xs[i]) \/ i = Len(xs) THEN xs[i] ELSE BfillAt(xs, i + 1)

Bfill(xs) == [i \in 1..Len(xs) |-> BfillAt(xs, i)]

\* The windows of the indicators of the ta library as they are called:
\* RSIIndicator(closes, 14), MACD(closes) (26 and 12), BollingerBands(closes) (20)
MinRows == 14

RsiWindow == 14

MacdSlow == 26

MacdFast == 12

BandWindow == 20

\* ewm(alpha = k / den, adjust = False).mean() at position t, rounded down
RECURSIVE EwmAt(_, _, _, _)
EwmAt(xs, t, k, den) ==
    IF t = 1 THEN xs[1]
    ELSE (k * xs[t] + (den - k) * EwmAt(xs, t - 1, k, den)) \div den

\* The whole root of n, by bisection between lo and hi
RECURSIVE RootBetween(_, _, _)
RootBetween(n, lo, hi) ==
    IF lo >= hi THEN lo
    ELSE LET mid == (lo + hi + 1) \div 2
         IN IF mid * mid <= n THEN RootBetween(n, mid, hi) ELSE RootBetween(n, lo, mid - 1)

RECURSIVE SumInts(_)
SumInts(xs) == IF xs = <<>> THEN 0 ELSE Head(xs) + SumInts(Tail(xs))

\* RSIIndicator(closes, 14).rsi().iloc[-1] on the values xs: NaN below the
\* window, 100 when no close fell
Rsi(xs) ==
    LET n == Len(xs)
        up == [i \in 1..n |-> IF i > 1 /\ xs[i] > xs[i - 1] THEN xs[i] - xs[i - 1] ELSE 0]
        dn == [i \in 1..n |-> IF i > 1 /\ xs[i] < xs[i - 1] THEN xs[i - 1] - xs[i] ELSE 0]
        emaup == EwmAt(up, n, 1, RsiWindow)
        emadn == EwmAt(dn, n, 1, RsiWindow)
    IN IF n < RsiWindow THEN NaN
       ELSE IF emadn = 0 THEN Val("float", 10000)
       ELSE Val("float", (10000 * emaup) \div (emaup + emadn))

\* MACD(closes).macd().iloc[-1]: NaN below the slow window
Macd(xs) ==
    LET n == Len(xs)
    IN IF n < MacdSlow THEN NaN
       ELSE Val("float", EwmAt(xs, n, 2, MacdFast + 1) - EwmAt(xs, n, 2, MacdSlow + 1))

\* The mean and the deviation of the last BandWindow values
BandMean(xs) == SumInts(SubSeq(xs, Len(xs) - BandWindow + 1, Len(xs))) \div BandWindow

BandDeviation(xs) ==
    LET last == SubSeq(xs, Len(xs) - BandWindow + 1, Len(xs))
        sq == [i \in 1..BandWindow |-> (last[i] - BandMean(xs)) * (last[i] - BandMean(xs))]
    IN RootBetween(SumInts(sq) \div BandWindow, 0, 30000)

\* BollingerBands(closes).bollinger_hband().iloc[-1] and bollinger_lband():
\* NaN below the window
BollingerUpper(xs) ==
    IF Len(xs) < BandWindow THEN NaN ELSE Val("float", BandMean(xs) + 2 * BandDeviation(xs))

BollingerLower(xs) ==
    IF Len(xs) < BandWindow THEN NaN ELSE Val("float", BandMean(xs) - 2 * BandDeviation(xs))

\* What the indicator computation raises: the library's arithmetic refuses
\* closes that are texts
ComputeError(closes) ==
    IF \E i \in 1..Len(closes) : closes[i].k = "str"
    THEN PlainError("TypeError", "unsupported operand type(s) for -: 'str' and 'str'")
    ELSE NoErr

\* The keywords AnalysisError.__init__ takes
AnalysisErrorKeywords == {"message", "metric", "dataset", "algorithm", "details", "cause"}

\* AnalysisError(**keywords): the error the raise statement ends with
RaiseAnalysisError(keywords, msg, details) ==
    IF keywords \subseteq AnalysisErrorKeywords
    THEN AnalysisError(msg, "", details)
    ELSE PlainError("TypeError", "__init__() got an unexpected keyword argument")

\* The checks of the table with the column looked at before the rows
ChecksColumnFirst(t) ==
    IF "close" \notin t.columns
    THEN DataValidationError("Coluna 'close' ausente", "historical_data.columns")
    ELSE IF t.rows = 0 \/ t.rows < MinRows
         THEN DataValidationError("Dados insuficientes, sao necessarios 14 periodos",
                                  "historical_data.index")
         ELSE IF \E i \in 1..Len(t.close) : IsNull(Bfill(Ffill(t.close))[i])
              THEN DataValidationError("Serie 'close' contem valores invalidos",
                                       "historical_data.close")
              ELSE NoErr

\* The checks of apply_technical_analysis (lines 357-379): the error raised,
\* NoErr when the table passes.  DataFrame.empty: no row or no column.
TechnicalChecks(t) ==
    IF t.rows = 0 \/ t.columns = {} \/ t.rows < MinRows
    THEN DataValidationError("Dados insuficientes, sao necessarios 14 periodos",
                             "historical_data.index")
    ELSE IF "close" \notin t.columns
         THEN DataValidationError("Coluna 'close' ausente", "historical_data.columns")
         ELSE IF \E i \in 1..Len(t.close) : IsNull(Bfill(Ffill(t.close))[i])
              THEN DataValidationError("Serie 'close' contem valores invalidos",
                                       "historical_data.close")
              ELSE NoErr

\* The body of apply_technical_analysis: [err, value]
TechnicalBody(t) ==
    LET closes == Bfill(Ffill(t.close))
        xs == [i \in 1..Len(closes) |-> closes[i].v]
    IN IF TechnicalChecks(t) # NoErr
       THEN [err |-> TechnicalChecks(t), value |-> <<>>]
       ELSE IF ComputeError(closes) # NoErr
            THEN [err |-> RaiseAnalysisError(
                              {"message", "component", "input_stats", "details"},
                              "Falha no calculo de indicadores",
                              Str(ComputeError(closes))),
                  value |-> <<>>]
            ELSE [err |-> NoErr,
                  value |-> [rsi |-> Rsi(xs), macd |-> Macd(xs),
                             bollinger_upper |-> BollingerUpper(xs),
                             bollinger_lower |-> BollingerLower(xs)]]

\* apply_technical_analysis, a plain function under handle_errors(re_raise=True)
apply_technical_analysis(t) ==
    [err |-> handle_errors(TRUE, FALSE, TechnicalBody(t).err),
     value |-> IF handle_errors(TRUE, FALSE, TechnicalBody(t).err) = NoErr
               THEN TechnicalBody(t).value ELSE <<>>]

\* The tables apply_technical_analysis is tried on: 0 to MaxRows rows; closes
\* that stay, rise, fall or go up and down; with a gap at the start, in the
\* middle, at the end or everywhere; closes that are texts; no "close"
\* column; no column at all
Patterns ==
    {"flat", "rising", "falling", "zigzag", "gap_first", "gap_mid", "gap_last", "gap_all",
     "text", "no_close", "no_columns"}

CloseAt(pattern, n, i) ==
    CASE pattern = "rising" -> Val("float", 10000 + 100 * i)
      [] pattern = "falling" -> Val("float", 10000 - 100 * i)
      [] pattern = "zigzag" -> Val("float", 10000 + 200 * (i % 3) - 50 * (i % 2))
      [] pattern = "gap_first" /\ i = 1 -> NaN
      [] pattern = "gap_mid" /\ i \in {2, 3} -> NaN
      [] pattern = "gap_last" /\ i = n -> NaN
      [] pattern = "gap_all" -> NaN
      [] pattern = "text" -> Val("str", i)
      [] OTHER -> Val("float", 10000 + 100 * (i % 2))

TableOf(pattern, n) ==
    Table(n,
          CASE pattern = "no_columns" -> {}
            [] pattern = "no_close" -> {"open"}
            [] OTHER -> {"close", "open"},
          IF pattern \in {"no_columns", "no_close"} THEN <<>>
          ELSE [i \in 1..n |-> CloseAt(pattern, n, i)])

Tables == {TableOf(pattern, n) : pattern \in Patterns, n \in 0..MaxRows}

InitTechnical ==
    /\ memecoins \in InitialRegistries
    /\ tasks = <<>>
    /\ call = [pc |-> "idle", arg |-> NoArg, base |-> memecoins, err |-> NoErr,
               result |-> NoErr]
    /\ started = [s \in Symbols |-> NoCalls]
    /\ batches = 0
    /\ coin = PriorRecord
    /\ signal = NoSignal
    /\ sentiment = NoSentiment
    /\ built = NoBuilt
    /\ analyzer = BuiltAnalyzer(memecoins # <<>>)
    /\ history \in Tables
    /\ indicators = NoIndicators
    /\ sapi = NoSocialCall
    /\ dex = NoDex

\* apply_technical_analysis(history) is called
ApplyTechnicalAnalysis ==
    /\ indicators.pc = "none"
    /\ indicators' = [pc |-> "done", err |-> apply_technical_analysis(history).err,
                      value |-> apply_technical_analysis(history).value]
    /\ UNCHANGED <<memecoins, tasks, call, started, batches, coin, signal, sentiment, built,
                   analyzer, history, sapi, dex>>

NextTechnical == ApplyTechnicalAnalysis

SpecTechnical == InitTechnical /\ [][NextTechnical]_vars

(* ------------- records and tables read with a registry at hand --------- *)
\* Records handed to detect_opportunities: one that buys (its volume and
\* price integers), one that sells, one without a signal, one without a
\* score, one whose price was set to a text, and the record of the registry
BuyRecord ==
    Memecoin("SOL", Val("str", 1), Val("int", 1), Val("int", 2000000), Val("float", 1000000),
             Val("int", 1000), Val("int", 50), Val("float", 8000))

SellRecord ==
    Memecoin("ETH", Val("str", 2), Val("float", 100), Val("float", 400000),
             Val("float", 1000000), Val("int", 1000), Val("int", 0), Val("float", 2500))

ReaderRecords ==
    {BuyRecord, SellRecord, PriorRecord,
     [SellRecord EXCEPT !.sentiment_score = Val("float", 5000)],
     [BuyRecord EXCEPT !.sentiment_score = PyNone],
     [BuyRecord EXCEPT !.price = Val("str", 3)]}

\* Registries of no, one and two records, the two in either order
ReaderRegistries ==
    {<<>>, <<PriorRecord>>, <<PriorRecord, BuyRecord>>, <<BuyRecord, PriorRecord>>}

InitReaders ==
    /\ memecoins \in ReaderRegistries
    /\ tasks = <<>>
    /\ call = [pc |-> "idle", arg |-> NoArg, base |-> memecoins, err |-> NoErr,
               result |-> NoErr]
    /\ started = [s \in Symbols |-> NoCalls]
    /\ batches = 0
    /\ coin \in ReaderRecords
    /\ signal = NoSignal
    /\ sentiment = NoSentiment
    /\ built = NoBuilt
    /\ analyzer = BuiltAnalyzer(memecoins # <<>>)
    /\ history \in Tables
    /\ indicators = NoIndicators
    /\ sapi = NoSocialCall
    /\ dex = NoDex

\* detect_opportunities(coin) and apply_technical_analysis(history) are
\* called, in either order, the first of them twice
NextReaders ==
    \/ DetectOpportunities
    \/ DetectAgain
    \/ ApplyTechnicalAnalysis

SpecReaders == InitReaders /\ [][NextReaders]_vars

(* --------------------------- the social client ------------------------- *)
\* APIConnectionError(message, url=url, status_code=status): the error keeps
\* the endpoint and the status of the response
ConnectionFailure(msg, url, status_code) ==
    [type |-> "APIConnectionError", msg |-> msg, field |-> "", component |-> "",
     metric |-> "", input |-> -1, details |-> <<>>, url |-> url, status_code |-> status_code]

\* The parameters of SocialAPI._validate_social_data besides self
SocialValidatorParameters == {"data", "symbol"}

\* SocialAPI._validate_social_data: the error it raises, NoErr when it
\* returns (it returns None)
ClientValidateSocial(data) ==
    CASE data.shape = "dict" ->
             IF {"mentions", "sentiment"} \subseteq data.keys
             THEN NoErr
             ELSE DataValidationError("Dados sociais incompletos", "social_data")
      [] data.shape = "list" ->
             IF data.posts = <<>>
             THEN DataValidationError("Lista de dados sociais vazia", "social_data")
             ELSE IF \A i \in 1..Len(data.posts) :
                        {"mentions", "sentiment"} \subseteq data.posts[i].keys
                  THEN NoErr
                  ELSE DataValidationError("Item incompleto", "social_data")
      [] OTHER ->
             DataValidationError("Dados sociais devem ser dicionario ou lista", "social_data")

\* The call self._validate_social_data(data, <keyword>=...): binding an
\* argument to a name the function does not have is a TypeError, raised
\* before the body runs; otherwise the body's error, or none with the falsy
\* None it returns
CallValidator(keyword, data) ==
    IF keyword \notin SocialValidatorParameters
    THEN PlainError("TypeError", "got an unexpected keyword argument " \o keyword)
    ELSE ClientValidateSocial(data)

\* The body of SocialAPI.fetch_twitter_mentions for a response with this
\* status and this JSON body: the validator's result is tested with `not`,
\* and what it returns is None
TwitterBody(symbol, status, data) ==
    IF status # 200
    THEN [err |-> ConnectionFailure("Falha na conexao com Twitter API",
                                    "twitter/tweets/search/recent?query=" \o symbol, status),
          value |-> SocialOther("none")]
    ELSE IF CallValidator("platform", data) # NoErr
         THEN [err |-> CallValidator("platform", data), value |-> SocialOther("none")]
         ELSE [err |-> DataValidationError("Resposta invalida do Twitter", "response"),
               value |-> SocialOther("none")]

\* SocialAPI.fetch_twitter_mentions, a coroutine under handle_errors(re_raise=True)
fetch_twitter_mentions(symbol, status, data) ==
    [err |-> handle_errors(TRUE, TRUE, TwitterBody(symbol, status, data).err),
     value |-> TwitterBody(symbol, status, data).value]

\* Statuses of a response
Statuses == {200, 201, 404, 429, 500}

\* Posts of a response: with a text, with mentions and sentiment, or neither
ClientPosts(i) == {Post({"text"}, i), Post({"mentions", "sentiment"}, i), Post({"id"}, i)}

ClientPostLists ==
    {<<>>} \cup {<<p>> : p \in ClientPosts(1)}
    \cup {<<p, q>> : p \in ClientPosts(1), q \in ClientPosts(2)}

\* JSON bodies of a response of the social service
ClientSocialPayloads ==
    {SocialDict(k) : k \in SUBSET {"mentions", "sentiment"}}
    \cup {SocialList(p) : p \in ClientPostLists}
    \cup {SocialOther("str"), SocialOther("none")}

\* await social_api.fetch_twitter_mentions(symbol) against a response
FetchTwitterMentions(symbol, status, data) ==
    /\ sapi' = [pc |-> "done", status |-> status, payload |-> data,
                err |-> fetch_twitter_mentions(symbol, status, data).err,
                value |-> fetch_twitter_mentions(symbol, status, data).value]
    /\ UNCHANGED <<memecoins, tasks, call, started, batches, coin, signal, sentiment, built,
                   analyzer, history, indicators, dex>>

NextSocial ==
    \E symbol \in Symbols, status \in Statuses, data \in ClientSocialPayloads :
        FetchTwitterMentions(symbol, status, data)

SpecSocial == Init /\ [][NextSocial]_vars

(* --------------------------- the market client ------------------------- *)
\* dict[key] = value
DictSet(dict, key, value) ==
    [k \in (DOMAIN dict) \cup {key} |-> IF k = key THEN value ELSE dict[k]]

\* dict.get(key): None when the key is missing
DictGet(dict, key) == IF key \in DOMAIN dict THEN dict[key] ELSE MarketNone

\* DexAPI._validate_market_data: all(field in data for field in
\* required_fields); `in` on None is a TypeError
ClientValidateMarket(data) ==
    IF data.shape # "dict"
    THEN [err |-> PlainError("TypeError", "argument of type NoneType is not iterable"),
          ok |-> FALSE]
    ELSE [err |-> NoErr, ok |-> {"price", "liquidity", "volume"} \subseteq DOMAIN data.d]

\* fetch_market_data storing the payload before it validates it
MarketBodyCachingFirst(cache, symbol, status, data) ==
    IF status # 200
    THEN [err |-> ConnectionFailure("Falha na conexao com DexScreener",
                                    "dexscreener/tokens/" \o symbol, status),
          value |-> MarketNone, cache |-> cache]
    ELSE IF ClientValidateMarket(data).err # NoErr
         THEN [err |-> ClientValidateMarket(data).err, value |-> MarketNone,
               cache |-> DictSet(cache, symbol, data)]
         ELSE IF ~ClientValidateMarket(data).ok
              THEN [err |-> DataValidationError("Dados de mercado invalidos", "response"),
                    value |-> MarketNone, cache |-> DictSet(cache, symbol, data)]
              ELSE [err |-> NoErr, value |-> data, cache |-> DictSet(cache, symbol, data)]

\* The body of DexAPI.fetch_market_data for a response with this status and
\* this JSON body: the error raised, the value returned and self.cache after
MarketBody(cache, symbol, status, data) ==
    IF status # 200
    THEN [err |-> ConnectionFailure("Falha na conexao com DexScreener",
                                    "dexscreener/tokens/" \o symbol, status),
          value |-> MarketNone, cache |-> cache]
    ELSE IF ClientValidateMarket(data).err # NoErr
         THEN [err |-> ClientValidateMarket(data).err, value |-> MarketNone, cache |-> cache]
         ELSE IF ~ClientValidateMarket(data).ok
              THEN [err |-> DataValidationError("Dados de mercado invalidos", "response"),
                    value |-> MarketNone, cache |-> cache]
              ELSE [err |-> NoErr, value |-> data, cache |-> DictSet(cache, symbol, data)]

\* DexAPI.fetch_market_data, a coroutine under handle_errors(re_raise=True)
fetch_market_data(cache, symbol, status, data) ==
    [err |-> handle_errors(TRUE, TRUE, MarketBody(cache, symbol, status, data).err),
     value |-> MarketBody(cache, symbol, status, data).value,
     cache |-> MarketBody(cache, symbol, status, data).cache]

\* DexAPI.get_cached_data under functools.lru_cache: the first call for a
\* symbol runs the body and keeps its result, a later call for the symbol
\* returns the kept result without running the body.  (maxsize=100 is never
\* reached by the symbols of the model, so nothing is evicted.)
get_cached_data(cache, memo, symbol) ==
    IF symbol \in DOMAIN memo
    THEN [value |-> memo[symbol], memo |-> memo]
    ELSE [value |-> DictGet(cache, symbol),
          memo |-> DictSet(memo, symbol, DictGet(cache, symbol))]

\* JSON bodies of a response of the market service
ClientMarketPayloads ==
    {MarketDict(MarketOK1), MarketDict(MarketOK2), MarketDict(Drop(MarketOK1, "holders")),
     MarketDict(Drop(MarketOK1, "price")), MarketNone}

\* await dex_api.fetch_market_data(symbol) against a response
FetchMarketData(symbol, status, data) ==
    /\ dex' = [cache |-> fetch_market_data(dex.cache, symbol, status, data).cache,
               memo |-> dex.memo, pc |-> "fetched", symbol |-> symbol, status |-> status,
               payload |-> data,
               err |-> fetch_market_data(dex.cache, symbol, status, data).err,
               value |-> fetch_market_data(dex.cache, symbol, status, data).value]
    /\ UNCHANGED <<memecoins, tasks, call, started, batches, coin, signal, sentiment, built,
                   analyzer, history, indicators, sapi>>

\* dex_api.get_cached_data(symbol)
GetCachedData(symbol) ==
    /\ dex' = [cache |-> dex.cache,
               memo |-> get_cached_data(dex.cache, dex.memo, symbol).memo,
               pc |-> "got", symbol |-> symbol, status |-> 0, payload |-> MarketNone,
               err |-> NoErr,
               value |-> get_cached_data(dex.cache, dex.memo, symbol).value]
    /\ UNCHANGED <<memecoins, tasks, call, started, batches, coin, signal, sentiment, built,
                   analyzer, history, indicators, sapi>>

NextDex ==
    \/ \E symbol \in Symbols, status \in Statuses, data \in ClientMarketPayloads :
           FetchMarketData(symbol, status, data)
    \/ \E symbol \in Symbols : GetCachedData(symbol)

SpecDex == Init /\ [][NextDex]_vars

(* ======================================================================= *)
(* The claims                                                              *)
(* ======================================================================= *)
\* What the claims say of the state
InList(s) == \E i \in 1..Len(call.arg.items) : call.arg.items[i] = s

\* The records the registry has gained since the call was made
Gained == SubSeq(memecoins, Len(call.base) + 1, Len(memecoins))

GainedFor(s) == {i \in 1..Len(Gained) : Gained[i].symbol = s}

BothFetched(t) == t.market # PendingMarket /\ t.social # PendingSocial

\* C1: for every non-empty list of symbols given to realtime_monitoring,
\* duplicates or not, process_memecoin and each of the two fetches are started
\* at most once for a symbol of the list and never for another symbol, and
\* by the time the call has returned exactly once for each symbol of the list.
C1_OncePerDistinctSymbol ==
    (call.pc # "idle" /\ call.arg.shape = "list" /\ call.arg.items # <<>>) =>
        \A s \in Symbols :
            LET want == IF InList(s) THEN 1 ELSE 0
                got == started[s]
            IN /\ got.pipeline <= want /\ got.market <= want /\ got.social <= want
               /\ call.pc = "returned" =>
                      got.pipeline = want /\ got.market = want /\ got.social = want

C1_Witness ==
    /\ call.pc = "returned"
    /\ call.arg = Arg("list", <<"SOL", "SOL", "ETH">>)
    /\ started["SOL"].pipeline = 1
    /\ started["ETH"].market = 1

\* C2: on a record whose sentiment_score, volume_24h and price are numbers,
\* detect_opportunities returns "buy" exactly when the score is above 0.7 and
\* the volume above 1,000,000, "sell" exactly when the score is below 0.3 and
\* the volume below 500,000, and no signal in every other case; it raises
\* nothing.
C2_Thresholds ==
    (signal.pc = "done"
     /\ \A a \in {"sentiment_score", "volume_24h", "price"} : coin[a].k \in {"int", "float"}) =>
        LET score == coin.sentiment_score.v
            volume == coin.volume_24h.v
        IN /\ signal.err = NoErr
           /\ signal.value = "buy" <=> (score > 7000 /\ volume > 1000000)
           /\ signal.value = "sell" <=> (score < 3000 /\ volume < 500000)
           /\ signal.value = "None" <=>
                  ~(score > 7000 /\ volume > 1000000) /\ ~(score < 3000 /\ volume < 500000)

C2_Witness ==
    /\ signal.pc = "done"
    /\ coin.sentiment_score = Val("float", 7000)
    /\ coin.volume_24h = Val("float", 1500000)
    /\ signal.value = "None"
    /\ signal.err = NoErr

\* C3: when a process_memecoin coroutine started by realtime_monitoring has
\* failed, what realtime_monitoring gives its caller is a ProcessingError
\* whose component is "realtime_monitoring" and whose details are str() of
\* the error the gather received, which is the error of a failed coroutine.
C3_WrapsFailure ==
    (call.pc = "returned" /\ \E id \in Current : tasks[id].pc = "failed") =>
        /\ call.result.type = "ProcessingError"
        /\ call.result.component = "realtime_monitoring"
        /\ call.result.details = Str(call.err)
        /\ \E id \in Current : tasks[id].pc = "failed" /\ tasks[id].err = call.err

C3_Witness ==
    /\ call.pc = "returned"
    /\ call.result.type = "ProcessingError"
    /\ call.result.details = <<"Erro API">>
    /\ \E id \in Current : tasks[id].pc = "failed" /\ tasks[id].market = PendingMarket
                           /\ tasks[id].err = PlainError("Exception", "Erro API")

\* C4 (as claimed): realtime_monitoring never gives an error to its caller;
\* whatever fails inside it, the call returns None.
C4_NeverPropagates == call.pc = "returned" => call.result = NoErr

\* A market payload with all five fields, each of the kind the spec names
StrictMarket(p) ==
    /\ p.shape = "dict"
    /\ {"name", "price", "volume", "liquidity", "holders"} \subseteq DOMAIN p.d
    /\ p.d["name"].k = "str"
    /\ \A f \in {"price", "volume", "liquidity"} : p.d[f].k \in {"int", "float"}
    /\ p.d["holders"].k = "int"

\* A social payload that is a non-empty list of posts, each with a text
TextedList(p) ==
    /\ p.shape = "list"
    /\ p.posts # <<>>
    /\ \A i \in 1..Len(p.posts) : "text" \in p.posts[i].keys

\* A social payload that is a mapping holding "mentions" and "sentiment"
CountsMapping(p) == p.shape = "dict" /\ {"mentions", "sentiment"} \subseteq p.keys

\* C5: when the call has returned and, for every symbol, the market payload
\* was valid and the social payload a non-empty list of posts with text, the
\* registry is what it was at the call followed by exactly one record for
\* each distinct symbol of the list, and no other record.
C5_OneRecordPerSymbol ==
    (/\ call.pc = "returned"
     /\ call.arg.shape = "list" /\ call.arg.items # <<>>
     /\ \A id \in Current : StrictMarket(tasks[id].market) /\ TextedList(tasks[id].social)) =>
        /\ Len(memecoins) >= Len(call.base)
        /\ SubSeq(memecoins, 1, Len(call.base)) = call.base
        /\ \A s \in Symbols : Cardinality(GainedFor(s)) = IF InList(s) THEN 1 ELSE 0
        /\ \A i \in 1..Len(Gained) : Gained[i].symbol \in Symbols

C5_Witness ==
    /\ call.pc = "returned"
    /\ call.arg = Arg("list", <<"SOL", "ETH", "SOL">>)
    /\ call.base # <<>>
    /\ \A id \in Current : StrictMarket(tasks[id].market) /\ TextedList(tasks[id].social)
    /\ Len(memecoins) = Len(call.base) + 2

\* C6 (as claimed): a social payload that is a mapping with "mentions" and
\* "sentiment" is accepted: with valid market payloads every pipeline appends
\* its record, so a call over n distinct symbols has add_memecoin called n
\* times.
C6_MappingAccepted ==
    (/\ call.pc = "returned"
     /\ call.arg.shape = "list" /\ call.arg.items # <<>>
     /\ \A id \in Current : StrictMarket(tasks[id].market) /\ CountsMapping(tasks[id].social)) =>
        /\ \A id \in Current : tasks[id].pc = "done"
        /\ Len(memecoins) = Len(call.base) + Cardinality(Current)

\* C7: realtime_monitoring called with an empty list, with a value that is
\* no list or with None gives its caller a DataValidationError on the field
\* "symbols"; no pipeline and no fetch is started and the registry stays as
\* it was.
C7_InvalidListRejected ==
    (call.pc # "idle" /\ (call.arg.shape # "list" \/ call.arg.items = <<>>)) =>
        /\ call.pc = "returned"
        /\ call.result.type = "DataValidationError"
        /\ call.result.field = "symbols"
        /\ DOMAIN tasks = {}
        /\ \A s \in Symbols : started[s] = NoCalls
        /\ memecoins = call.base

C7_Witness ==
    /\ call.pc = "returned"
    /\ call.arg = Arg("tuple", <<"SOL", "ETH">>)
    /\ call.result.type = "DataValidationError"
    /\ memecoins = call.base /\ memecoins # <<>>

\* The scorer raised, for the post at idx, an error that is no KeyError
ScorerFailed(t) == t.last.kind = "raise" /\ t.last.err.type # "KeyError"

\* C8 (as claimed): if the scorer fails for a post of a symbol, the pipeline
\* of that symbol fails with a ProcessingError and no record for the symbol
\* is appended.
C8_ScorerFailureAborts ==
    \A id \in DOMAIN tasks :
        ScorerFailed(tasks[id]) =>
            /\ tasks[id].pc = "failed"
            /\ tasks[id].err.type = "ProcessingError"
            /\ GainedFor(tasks[id].symbol) = {}

\* C8 (amended): if the scorer raises for a post an error other than a
\* KeyError, _calculate_sentiment_score raises a ProcessingError naming the
\* component "nlp_processor", that post and the cause; _create_memecoin_instance
\* replaces it by the score 0.0, so the pipeline does not fail and a record of
\* the symbol with sentiment_score 0.0 is appended.
C8_ScorerFailureDefaults ==
    \A id \in DOMAIN tasks :
        LET t == tasks[id]
        IN ScorerFailed(t) =>
               /\ t.calc.type = "ProcessingError"
               /\ t.calc.component = "nlp_processor"
               /\ t.calc.input = t.social.posts[t.idx].id
               /\ t.calc.details = Str(t.last.err)
               /\ t.pc = "done"
               /\ t.err = NoErr
               /\ \E i \in GainedFor(t.symbol) :
                      /\ Gained[i].sentiment_score = Val("float", 0)
                      /\ Gained[i].social_mentions = Val("int", Len(t.social.posts))

C8_Witness ==
    \E id \in DOMAIN tasks :
        /\ ScorerFailed(tasks[id])
        /\ tasks[id].idx = 2
        /\ tasks[id].pc = "done"
        /\ Len(Gained) = 1

\* The market field f is absent from the payload or holds a value of the
\* wrong kind (a Python bool counts as an integer)
MarketDefect(p, f) ==
    IF f \notin DOMAIN p.d THEN TRUE
    ELSE CASE f = "name" -> p.d[f].k \notin {"str", "numstr"}
           [] f = "holders" -> p.d[f].k \notin {"int", "bool"}
           [] OTHER -> p.d[f].k \notin {"int", "float", "bool"}

MarketDefects(p) ==
    {f \in {"name", "price", "volume", "liquidity", "holders"} : MarketDefect(p, f)}

\* C9: if the market payload of a symbol lacks one of name, price, volume,
\* liquidity, holders or holds it with the wrong kind of value, then once both
\* fetches have returned the pipeline has failed with a DataValidationError
\* whose field is market_data.<that field>, the scorer has not been called for
\* the symbol and no record of the symbol has been appended.
C9_MarketDefectRejected ==
    \A id \in DOMAIN tasks :
        LET t == tasks[id]
        IN (BothFetched(t) /\ t.market.shape = "dict" /\ MarketDefects(t.market) # {}) =>
               /\ t.pc = "failed"
               /\ t.err.type = "DataValidationError"
               /\ \E f \in MarketDefects(t.market) : t.err.field = "market_data." \o f
               /\ started[t.symbol].scorer = 0
               /\ GainedFor(t.symbol) = {}

C9_Witness ==
    \E id \in DOMAIN tasks :
        /\ BothFetched(tasks[id])
        /\ TextedList(tasks[id].social)
        /\ "holders" \in DOMAIN tasks[id].market.d
        /\ tasks[id].market.d["holders"].k = "float"
        /\ tasks[id].err.field = "market_data.holders"
        /\ tasks[id].pc = "failed"

\* The fields the social validation names in its errors
SocialErrorFields ==
    {"social_data"} \cup {"social_data[" \o ToString(i - 1) \o "].text" : i \in 1..(MaxPosts + 1)}

SocialValidationMessages ==
    {"Dados sociais incompletos", "Lista de dados sociais vazia", "Post sem texto",
     "Dados sociais devem ser dicionario ou lista"}

C11_NoUsableScoreIsZero ==
    LET texted == {i \in 1..Len(sentiment.posts) : "text" \in sentiment.posts[i].keys}
        n == Len(sentiment.passed)
    IN /\ \A j \in 1..n : sentiment.passed[j].post \in texted
       /\ \A j \in 1..n, k \in 1..n : j < k => sentiment.passed[j].post < sentiment.passed[k].post
       /\ (sentiment.pc = "returned" /\ \A j \in 1..n : sentiment.passed[j].kind = "nokey") =>
              /\ sentiment.err = NoErr
              /\ sentiment.value = Val("float", 0)
              /\ {sentiment.passed[j].post : j \in 1..n} = texted

C11_Witness ==
    /\ sentiment.pc = "returned"
    /\ sentiment.posts = <<PostAt(1, FALSE), PostAt(2, FALSE)>>
    /\ sentiment.passed = <<>>
    /\ sentiment.value = Val("float", 0)
    /\ sentiment.err = NoErr

\* The attributes detect_opportunities requires
Required == {"sentiment_score", "volume_24h", "price"}

\* C12: detect_opportunities on a record whose sentiment_score, volume_24h or
\* price is absent or None raises a DataValidationError and returns no
\* signal, whatever the other attributes hold (also one that float() would
\* refuse: the check comes before the conversions).
C12_MissingAttributeRejected ==
    (signal.pc # "none" /\ built.pc # "none" /\ \E a \in Required : Missing(coin[a])) =>
        /\ signal.err.type = "DataValidationError"
        /\ signal.err.field = "memecoin"
        /\ signal.value = "None"

C12_Witness ==
    /\ signal.pc = "done"
    /\ built.pc = "set"
    /\ coin.sentiment_score = PyNone
    /\ coin.price = Val("str", 3)
    /\ signal.err.type = "DataValidationError"

\* C13 (as claimed): a record whose price is a string such as "100.0" can be
\* made and handed to detect_opportunities, which then raises an AnalysisError;
\* and detect_opportunities raises an AnalysisError whenever sentiment_score,
\* volume_24h and price are all present and one of them is a string or
\* cannot be converted by float().
C13_WrongKindIsAnalysisError ==
    /\ (built.pc # "none" /\ IsStr(built.args.price)
        /\ __post_init__([built.args EXCEPT !.price = Val("float", 100)]) = NoErr) =>
           built.pc # "rejected"
    /\ (signal.pc # "none" /\ built.pc # "none"
        /\ (\A a \in Required : ~Missing(coin[a]))
        /\ (\E b \in Required : IsStr(coin[b]) \/ FloatError(coin[b]) # NoErr)) =>
           /\ signal.err.type = "AnalysisError"
           /\ signal.value = "None"

\* A record with the given sentiment_score and volume_24h, every other field
\* fixed
Canonical(score, volume) ==
    Memecoin("ANY", Val("str", 0), Val("float", 0), volume, Val("float", 0), Val("int", 0),
             Val("int", 0), score)

\* C14: on a record that was constructed, what detect_opportunities gives
\* (signal or error) is what it gives on the record that has the same
\* sentiment_score and volume_24h and fixed other fields, so two records equal
\* in those two fields get the same outcome, whatever the registry holds;
\* and a second call on the same record gives what the first gave.
C14_PureInScoreAndVolume ==
    /\ [](signal.pc # "none" /\ built.pc = "built" =>
             LET same == detect_opportunities(
                             Canonical(coin.sentiment_score, coin.volume_24h))
             IN signal.err = same.err /\ signal.value = same.value)
    /\ [][(signal.pc = "done" /\ signal'.pc = "again") =>
             (signal'.err = signal.err /\ signal'.value = signal.value)]_vars

C14_Witness ==
    /\ signal.pc = "again"
    /\ built.pc = "built"
    /\ memecoins # <<>>
    /\ coin.price = Val("int", 1)
    /\ coin.holders = Val("bool", 1)
    /\ coin.sentiment_score = Val("float", 7500)
    /\ coin.volume_24h = Val("float", 2000000)
    /\ signal.value = "buy"

\* C15: the registry of an analyzer constructed without a registry is empty
\* until a call is made; no step removes, moves or replaces a record that is
\* in the registry; and a process_memecoin coroutine that returns has
\* appended exactly one record, of its symbol, at the end, also when a record
\* of that symbol was already there.
C15_AppendOnly ==
    /\ []((analyzer.pc = "built" /\ ~analyzer.given /\ batches = 0) => memecoins = <<>>)
    /\ [][/\ Len(memecoins') >= Len(memecoins)
           /\ SubSeq(memecoins', 1, Len(memecoins)) = memecoins
           /\ \A id \in (DOMAIN tasks) \cap (DOMAIN tasks') :
                  (Running(tasks[id]) /\ tasks'[id].pc = "done") =>
                      /\ Len(memecoins') = Len(memecoins) + 1
                      /\ memecoins'[Len(memecoins')].symbol = tasks[id].symbol]_vars

C15_Witness ==
    /\ analyzer.pc = "built" /\ ~analyzer.given
    /\ batches = 2
    /\ call.pc = "returned"
    /\ Len(memecoins) = 2
    /\ memecoins[1].symbol = "SOL"
    /\ memecoins[2].symbol = "SOL"

\* C16: once a process_memecoin coroutine of the call has failed, the registry
\* still begins with what it held at the call, holds exactly one new record
\* for every coroutine of the call that has returned and none for one that
\* failed or is still running: a failing call over k distinct symbols leaves
\* at most k - 1 new records.
C16_PartialResultsRetained ==
    (call.pc # "idle" /\ \E id \in Current : tasks[id].pc = "failed") =>
        /\ Len(memecoins) >= Len(call.base)
        /\ SubSeq(memecoins, 1, Len(call.base)) = call.base
        /\ \A id \in Current :
               Cardinality(GainedFor(tasks[id].symbol)) = IF tasks[id].pc = "done" THEN 1 ELSE 0
        /\ Len(Gained) = Cardinality({id \in Current : tasks[id].pc = "done"})
        /\ Len(Gained) <= Cardinality(Current) - 1

C16_Witness ==
    /\ call.pc = "returned"
    /\ call.result.type = "ProcessingError"
    /\ call.base # <<>>
    /\ Cardinality(Current) = 2
    /\ \E id \in Current : tasks[id].pc = "failed"
    /\ \E id \in Current : tasks[id].pc = "done"
    /\ Len(Gained) = 1

\* C17 (as claimed): when realtime_monitoring has returned, with or without
\* an error, no process_memecoin coroutine it started is still running, and
\* the registry does not change after the return.
C17_WaitsForAll ==
    /\ [](call.pc = "returned" => \A id \in Current : ~Running(tasks[id]))
    /\ [][(call.pc = "returned" /\ call'.pc = "returned") => memecoins' = memecoins]_vars

\* The fields of a record that hold a value of the wrong kind (Python's
\* kinds: a bool is an integer, and so a number)
WrongFields(m) ==
    {f \in {"price", "volume_24h", "liquidity"} : m[f].k \notin {"int", "float", "bool"}}
    \cup {f \in {"holders", "social_mentions"} : m[f].k \notin {"int", "bool"}}
    \cup {f \in {"sentiment_score"} : m[f].k \notin {"int", "float", "bool", "none"}}

C19_RoundTrip ==
    \A id \in DOMAIN tasks :
        LET t == tasks[id]
        IN (/\ BothFetched(t) /\ ~Running(t)
            /\ t.market.shape = "dict" /\ MarketDefects(t.market) = {}
            /\ TextedList(t.social)) =>
               /\ t.pc = "done"
               /\ \E i \in GainedFor(t.symbol) :
                      LET r == Gained[i]
                      IN /\ r.symbol = t.symbol
                         /\ r.name = t.market.d["name"]
                         /\ r.price = Val("float", t.market.d["price"].v)
                         /\ r.volume_24h = Val("float", t.market.d["volume"].v)
                         /\ r.liquidity = Val("float", t.market.d["liquidity"].v)
                         /\ r.holders = Val("int", t.market.d["holders"].v)
                         /\ r.social_mentions = Val("int", Len(t.social.posts))

C19_Witness ==
    \E id \in DOMAIN tasks :
        /\ tasks[id].pc = "done"
        /\ tasks[id].market = MarketDict(MarketOK2)
        /\ Len(tasks[id].social.posts) = 2
        /\ tasks[id].last.kind = "nokey"
        /\ \E i \in GainedFor(tasks[id].symbol) :
               /\ Gained[i].social_mentions = Val("int", 2)
               /\ Gained[i].volume_24h = Val("float", 400000)
               /\ Gained[i].holders = Val("int", 1)

\* The client types the constructor recognizes (a mock counts for either)
RecognizedDex == {"DexAPI", "Mock", "AsyncMock"}

RecognizedSocial == {"SocialAPI", "Mock", "AsyncMock"}

\* C20: MarketAnalyzer(...) raises a DataValidationError on the field dex_api
\* when the market client is of no recognized type, on the field social_api
\* when the market client is and the social client is not, and nothing
\* otherwise; it starts no coroutine and calls no fetch; and an analyzer made
\* without a registry has an empty one.
C20_ConstructorValidatesClients ==
    analyzer.pc # "none" =>
        /\ analyzer.dex_api \notin RecognizedDex =>
               /\ analyzer.pc = "rejected"
               /\ analyzer.err.type = "DataValidationError"
               /\ analyzer.err.field = "dex_api"
        /\ (analyzer.dex_api \in RecognizedDex /\ analyzer.social_api \notin RecognizedSocial) =>
               /\ analyzer.pc = "rejected"
               /\ analyzer.err.type = "DataValidationError"
               /\ analyzer.err.field = "social_api"
        /\ (analyzer.dex_api \in RecognizedDex /\ analyzer.social_api \in RecognizedSocial) =>
               /\ analyzer.pc = "built"
               /\ analyzer.err = NoErr
        /\ (batches = 0) => (tasks = <<>> /\ \A s \in Symbols : started[s] = NoCalls)
        /\ (analyzer.pc = "built" /\ ~analyzer.given /\ batches = 0) => memecoins = <<>>

C20_Witness ==
    /\ analyzer.pc = "rejected"
    /\ analyzer.dex_api = "str"
    /\ analyzer.social_api = "none"
    /\ analyzer.err.field = "dex_api"

\* The closes of the table once filled forward and backward
Filled(t) == Bfill(Ffill(t.close))

ValidCloses(t) ==
    /\ "close" \in t.columns
    /\ \A i \in 1..Len(Filled(t)) : Filled(t)[i].k = "float"

\* C22 (as claimed): apply_technical_analysis on a table of 14 or more valid
\* closes, also one of fewer than 20 or fewer than 26 rows, raises nothing and
\* returns rsi, macd, bollinger_upper and bollinger_lower, each a number, with
\* bollinger_upper >= bollinger_lower.
C22_FourNumbers ==
    (indicators.pc = "done" /\ history.rows >= 14 /\ ValidCloses(history)) =>
        /\ indicators.err = NoErr
        /\ DOMAIN indicators.value = {"rsi", "macd", "bollinger_upper", "bollinger_lower"}
        /\ \A key \in DOMAIN indicators.value : indicators.value[key].k = "float"
        /\ indicators.value["bollinger_upper"].v >= indicators.value["bollinger_lower"].v

\* C23 (as claimed): when the indicator computation raises, what
\* apply_technical_analysis gives its caller is an AnalysisError whose details
\* are str() of the error raised.
C23_ComputationFailureWrapped ==
    (indicators.pc = "done" /\ TechnicalChecks(history) = NoErr
     /\ ComputeError(Filled(history)) # NoErr) =>
        /\ indicators.err.type = "AnalysisError"
        /\ indicators.err.details = Str(ComputeError(Filled(history)))

\* The payload shapes the specification accepts from the social service:
\* a mapping with mentions and sentiment, or a non-empty list of posts
AcceptedShape(data) ==
    \/ data.shape = "dict" /\ {"mentions", "sentiment"} \subseteq data.keys
    \/ data.shape = "list" /\ data.posts # <<>>

\* C24: fetch_twitter_mentions returns the payload of a 200 response whose
\* shape is accepted, and fails only on another status or an invalid payload
C24_ReturnsAcceptedPayload ==
    (sapi.pc = "done" /\ sapi.status = 200 /\ AcceptedShape(sapi.payload)) =>
        /\ sapi.err = NoErr
        /\ sapi.value = sapi.payload

\* C25: a non-200 response makes fetch_market_data fail with a connection
\* error that carries the endpoint and the status; that failure and a payload
\* the validation rejects leave the cache as it was; the cache entry of the
\* symbol is written only with the payload of a 200 response that holds
\* price, liquidity and volume
C25_CacheWrittenOnlyOnSuccess ==
    [][(dex'.pc = "fetched") =>
          /\ (dex'.status # 200) =>
                /\ dex'.err.type = "APIConnectionError"
                /\ dex'.err.url = "dexscreener/tokens/" \o dex'.symbol
                /\ dex'.err.status_code = dex'.status
                /\ dex'.cache = dex.cache
          /\ (dex'.err # NoErr) => dex'.cache = dex.cache
          /\ (dex'.status = 200 /\ dex'.payload.shape = "dict"
              /\ ~({"price", "liquidity", "volume"} \subseteq DOMAIN dex'.payload.d)) =>
                dex'.err.type = "DataValidationError"
          /\ (dex'.cache # dex.cache) =>
                /\ dex'.status = 200
                /\ dex'.payload.shape = "dict"
                /\ {"price", "liquidity", "volume"} \subseteq DOMAIN dex'.payload.d
                /\ dex'.cache = DictSet(dex.cache, dex'.symbol, dex'.payload)]_vars

\* A fetch that failed for a symbol whose entry an earlier fetch had written,
\* the entry still there
C25_Witness ==
    /\ dex.pc = "fetched"
    /\ dex.err # NoErr
    /\ dex.status = 200
    /\ dex.symbol \in DOMAIN dex.cache
    /\ dex.cache[dex.symbol] # dex.payload

\* C29: get_cached_data(symbol) returns the payload the most recent
\* successful fetch_market_data(symbol) stored (the entry of self.cache), and
\* nothing only while no fetch for the symbol has succeeded
C29_CachedIsLatest ==
    (dex.pc = "got") => dex.value = DictGet(dex.cache, dex.symbol)

\* C26: a call of detect_opportunities or of apply_technical_analysis,
\* whether it returns or raises, leaves every field of the record and the
\* contents and order of the registry as they were
C26_ReadersOnlyRead ==
    [][(signal' # signal \/ indicators' # indicators) =>
          /\ coin' = coin
          /\ memecoins' = memecoins]_vars

\* Both have been called with two records in the registry, one of the calls
\* having failed and the other returned
C26_Witness ==
    /\ Len(memecoins) = 2
    /\ signal.pc = "again"
    /\ indicators.pc = "done"
    /\ \/ signal.err # NoErr /\ indicators.err = NoErr
       \/ signal.err = NoErr /\ indicators.err # NoErr

\* C27: however the process_memecoin coroutines of a call are interleaved,
\* the registry is what it was at the call followed by exactly one record
\* for each coroutine that has appended (having passed both validations) and
\* none for a coroutine that failed or has not come to the append yet; the
\* records need not stand in the order of the symbols given
C27_NoLostOrDuplicateAppend ==
    (call.pc # "idle" /\ call.arg.shape = "list") =>
        /\ Len(memecoins) >= Len(call.base)
        /\ SubSeq(memecoins, 1, Len(call.base)) = call.base
        /\ Len(Gained) = Cardinality({id \in Current : tasks[id].pc = "done"})
        /\ \A i \in 1..Len(Gained) :
               \E id \in Current : tasks[id].pc = "done" /\ tasks[id].symbol = Gained[i].symbol
        /\ \A id \in Current :
               /\ Cardinality(GainedFor(tasks[id].symbol)) =
                      IF tasks[id].pc = "done" THEN 1 ELSE 0
               /\ tasks[id].pc = "done" =>
                      /\ _validate_market_data(tasks[id].market) = NoErr
                      /\ _validate_social_data(tasks[id].social) = NoErr

\* Two coroutines have appended, the one of the second symbol first
C27_Witness ==
    /\ call.arg = Arg("list", <<"SOL", "ETH">>)
    /\ call.base # <<>>
    /\ Len(Gained) = 2
    /\ Gained[1].symbol = "ETH"
    /\ Gained[2].symbol = "SOL"

\* C28 (as claimed, for the coroutine fetch_market_data): what the call gives
\* its caller is nothing when the body raised nothing, the body's error
\* itself when that is a domain error, and otherwise an InsiderCryptoError
\* wrapping it; so every error that escapes is a domain error
C28_OnlyDomainErrorsEscape ==
    (dex.pc = "fetched") =>
        LET raised == MarketBody(dex.cache, dex.symbol, dex.status, dex.payload).err
        IN /\ dex.err # NoErr => IsDomainError(dex.err)
           /\ dex.err = IF raised = NoErr \/ IsDomainError(raised)
                        THEN raised
                        ELSE InsiderCryptoError("Erro nao tratado detectado")

\* C30: every record a process_memecoin coroutine has appended holds a
\* sentiment_score that is a number between -1 and 1 (the compound scores the
\* scorer returns being in that range or no numbers at all) and a price and a
\* volume_24h that are numbers, so that detect_opportunities on it raises
\* nothing and returns "buy", "sell" or no signal
C30_AppendedRecordsAreDetectable ==
    \A i \in 1..Len(Gained) :
        /\ Gained[i].sentiment_score.k \in {"int", "float"}
        /\ Gained[i].sentiment_score.v >= -10000
        /\ Gained[i].sentiment_score.v <= 10000
        /\ Gained[i].price.k \in {"int", "float"}
        /\ Gained[i].volume_24h.k \in {"int", "float"}
        /\ detect_opportunities(Gained[i]).err = NoErr
        /\ detect_opportunities(Gained[i]).value \in {"buy", "sell", "None"}

\* A record appended after the calculation failed on a compound score that
\* is no number: it holds 0.0 and, its volume low, detect_opportunities sells
C30_Witness ==
    \E id \in Current :
        /\ tasks[id].pc = "done"
        /\ tasks[id].calc.type = "TypeError"
        /\ \E i \in GainedFor(tasks[id].symbol) :
               /\ Gained[i].sentiment_score = Val("float", 0)
               /\ Gained[i].volume_24h = Val("float", 400000)
               /\ detect_opportunities(Gained[i]).value = "sell"

====
